---- MODULE Spec2Model ----
(***************************************************************************)
(* A model of the pizza-delivery game of paiput/hackaton-paisanos:         *)
(*   - the match server  (src/network/PizzaGameServer.ts),                 *)
(*   - the position-relay server and its client hook                       *)
(*     (src/network/GameServer.ts, client/hooks/useGameNetwork.ts),        *)
(*   - the match loop, the player controller and the generators of the     *)
(*     game component (src/pizza-delivery-game.tsx),                       *)
(*   - the world generators of the server (src/utils/generators.ts),       *)
(*   - the collect-point route (src/app/api/collect-point/route.ts).       *)
(*                                                                         *)
(* Lengths are integers in hundredths of a pixel (Px converts), so that    *)
(* the friction factor 0.98 and the stop threshold 0.35 are representable. *)
(* The match clock is counted in 60 Hz ticks (the code subtracts 1/60 s    *)
(* per tick).                                                              *)
(***************************************************************************)
EXTENDS Integers, Sequences, FiniteSets, TLC

(***************************************************************************)
(* Program constants                                                       *)
(***************************************************************************)
TOTAL_PIZZAS == 15
REQUIRED_DELIVERIES == 10
CITY_WIDTH == 2400
CITY_HEIGHT == 1600
BLOCK_SIZE == 200
STREET_WIDTH == 100

(***************************************************************************)
(* Bounds of the model                                                     *)
(***************************************************************************)
\* 60 Hz ticks on the clock of a match (the code's GAME_DURATION * 60)
MatchTicks == 2
\* attempts of generateDeliveryPoints (the code's 100)
MaxAttempts == 2
\* throws a player makes (of its TOTAL_PIZZAS), and pizzas in the world at once
MaxThrows == 1
\* intervals of one kind alive at once
MaxIntervals == 2
\* 10 Hz ticks handled while a match runs: the slower timer fires less often
MaxVehicleTicks == MatchTicks \div 2
\* blocks generateCity builds (the code's 12 * 8)
CityBlocks == 2
\* vehicles generateVehicles makes (the code's 15)
MaxVehicles == 1

\* the socket ids the transport hands out
Conns == {"s1", "s2"}

(***************************************************************************)
(* Arithmetic helpers                                                      *)
(***************************************************************************)
Px(n) == n * 100

Abs(n) == IF n < 0 THEN -n ELSE n

Min(a, b) == IF a <= b THEN a ELSE b

Max(a, b) == IF a >= b THEN a ELSE b

\* a * num / den, truncated towards zero (a float product, to model precision)
Scale(a, num, den) == IF a >= 0 THEN (a * num) \div den ELSE -(((-a) * num) \div den)

Vec(x, y) == [x |-> x, y |-> y]

\* sqrt(dx^2 + dy^2) < r, without leaving TLC's integers
DistLess(dx, dy, r) == Abs(dx) < r /\ Abs(dy) < r /\ dx * dx + dy * dy < r * r

\* sqrt(dx^2 + dy^2) <= r
DistLeq(dx, dy, r) == Abs(dx) <= r /\ Abs(dy) <= r /\ dx * dx + dy * dy <= r * r

\* floor(sqrt(n)) for 0 <= n
ISqrt(n) == CHOOSE r \in 0..4000 : r * r <= n /\ (r + 1) * (r + 1) > n

(***************************************************************************)
(* World generation (src/utils/generators.ts).  Every Math.random() draw   *)
(* is an input of the operator that consumes it.  Fields used only for     *)
(* drawing (style, color, rotation) are left out.                          *)
(***************************************************************************)
\* a Building of type "building": the only type the generators push
Rect(x, y, w, h) == [x |-> x, y |-> y, width |-> w, height |-> h, type |-> "building"]

\* the obstacles of the block whose corner is (x, y), for a draw of "type":
\* 1 = type < 0.33, 2 = type < 0.66, 3 = otherwise
BlockBuildings(x, y, type) ==
    LET o == STREET_WIDTH \div 2
        s == BLOCK_SIZE - STREET_WIDTH
    IN  CASE type = 1 -> << Rect(Px(x + o), Px(y + o), Px(s), Px(s)) >>
          [] type = 2 -> << Rect(Px(x + o), Px(y + o), Scale(Px(s), 60, 100), Px(s)),
                            Rect(Px(x + o) + Scale(Px(s), 65, 100), Px(y + o),
                                 Scale(Px(s), 30, 100), Scale(Px(s), 70, 100)) >>
          [] OTHER    -> << Rect(Px(x + o), Px(y + o),
                                 Scale(Px(s), 70, 100), Scale(Px(s), 40, 100)),
                            Rect(Px(x + o), Px(y + o) + Scale(Px(s), 45, 100),
                                 Scale(Px(s), 40, 100), Scale(Px(s), 50, 100)) >>

BlockRows == CITY_HEIGHT \div BLOCK_SIZE

\* generateCity: x is the outer loop, y the inner one; draw[k] is the k-th
\* block's "type" draw.  The first CityBlocks blocks of the loop are built.
RECURSIVE CityFrom(_, _)
CityFrom(k, draw) ==
    IF k > CityBlocks THEN << >>
    ELSE BlockBuildings(((k - 1) \div BlockRows) * BLOCK_SIZE,
                        ((k - 1) % BlockRows) * BLOCK_SIZE, draw[k])
         \o CityFrom(k + 1, draw)

generateCity(draw) == CityFrom(1, draw)

\* the comparisons of isOnStreet with "<=" and ">=": a box that touches collides
isOnStreetTouching(x, y, size, blds) ==
    \A i \in 1..Len(blds) :
        ~ ( /\ blds[i].type = "building"
            /\ x - size.x \div 2 <= blds[i].x + blds[i].width
            /\ x + size.x \div 2 >= blds[i].x
            /\ y - size.y \div 2 <= blds[i].y + blds[i].height
            /\ y + size.y \div 2 >= blds[i].y )

\* the box of the given size centred on (x, y) overlaps no building
isOnStreet(x, y, size, blds) ==
    \A i \in 1..Len(blds) :
        ~ ( /\ blds[i].type = "building"
            /\ x - size.x \div 2 < blds[i].x + blds[i].width
            /\ x + size.x \div 2 > blds[i].x
            /\ y - size.y \div 2 < blds[i].y + blds[i].height
            /\ y + size.y \div 2 > blds[i].y )

\* generateDeliveryPoints: draws[k] is the point drawn at attempt k
RECURSIVE DeliveryPointsFrom(_, _, _, _)
DeliveryPointsFrom(blds, draws, attempts, points) ==
    IF Len(points) < REQUIRED_DELIVERIES /\ attempts < Len(draws)
    THEN LET p == draws[attempts + 1]
         IN  DeliveryPointsFrom(blds, draws, attempts + 1,
                 IF isOnStreet(p.x, p.y, Vec(Px(80), Px(80)), blds)
                 THEN Append(points, [position |-> p,
                                      active |-> (Len(points) = 0),
                                      radius |-> Px(40)])
                 ELSE points)
    ELSE points

generateDeliveryPoints(blds, draws) == DeliveryPointsFrom(blds, draws, 0, << >>)

\* Math.round(v / BLOCK_SIZE) * BLOCK_SIZE, for v >= 0
SnapToBlock(v) == ((2 * v + Px(BLOCK_SIZE)) \div (2 * Px(BLOCK_SIZE))) * Px(BLOCK_SIZE)

findNearestIntersection(x, y) == Vec(SnapToBlock(x), SnapToBlock(y))

\* the direction after one "shouldTurn" draw: "straight" keeps it, "turnPlus"
\* and "turnMinus" turn by 90 degrees
TurnedDirection(dir, step) ==
    IF step = "straight" THEN dir
    ELSE LET sgn == IF step = "turnPlus" THEN 1 ELSE -1
         IN  IF dir.x # 0 THEN Vec(0, sgn) ELSE Vec(sgn, 0)

\* a hop accepted for being inside the city alone
HopAcceptedOffStreet(pos, blds) ==
    /\ pos.x >= 0 /\ pos.x < Px(CITY_WIDTH)
    /\ pos.y >= 0 /\ pos.y < Px(CITY_HEIGHT)

\* a hop is accepted when it is inside the city and on a street
HopAccepted(pos, blds) ==
    /\ pos.x >= 0 /\ pos.x < Px(CITY_WIDTH)
    /\ pos.y >= 0 /\ pos.y < Px(CITY_HEIGHT)
    /\ isOnStreet(pos.x, pos.y, Vec(Px(40), Px(40)), blds)

\* the loop of generateVehicleRoute: i counts the points still to add, k the
\* iterations made; steps[k] is the draw of iteration k ("straight" once the
\* listed draws are used up).  A rejected hop reverses the direction and
\* repeats the iteration (i--).
RECURSIVE RouteFrom(_, _, _, _, _, _, _)
RouteFrom(i, k, cur, dir, points, steps, blds) ==
    IF i >= 4 THEN points
    ELSE LET step == IF k <= Len(steps) THEN steps[k] ELSE "straight"
             d    == TurnedDirection(dir, step)
             next == Vec(cur.x + d.x * Px(BLOCK_SIZE), cur.y + d.y * Px(BLOCK_SIZE))
         IN  IF HopAccepted(next, blds)
             THEN RouteFrom(i + 1, k + 1, next, d, Append(points, next), steps, blds)
             ELSE RouteFrom(i, k + 1, cur, Vec(-d.x, -d.y), points, steps, blds)

\* rnd.dir is the first direction drawn, rnd.steps the later draws
generateVehicleRoute(startPos, blds, rnd) ==
    LET start == findNearestIntersection(startPos.x, startPos.y)
    IN  [points |-> RouteFrom(1, 1, start, rnd.dir, << start >>, rnd.steps, blds),
         currentPointIndex |-> 0]

VehicleSize(truck) == IF truck THEN Vec(Px(40), Px(20)) ELSE Vec(Px(25), Px(15))

\* the inner loop of generateVehicles: the first drawn position that is on a
\* street makes the vehicle; none within the attempts makes no vehicle
RECURSIVE VehicleFromTries(_, _, _)
VehicleFromTries(blds, draw, attempts) ==
    IF attempts >= Len(draw.tries) THEN << >>
    ELSE LET t == draw.tries[attempts + 1]
         IN  IF isOnStreet(t.position.x, t.position.y, VehicleSize(t.truck), blds)
             THEN << [position |-> t.position,
                      velocity |-> Vec(0, 0),
                      size     |-> VehicleSize(t.truck),
                      speed    |-> draw.speed,
                      route    |-> generateVehicleRoute(t.position, blds, draw.route)] >>
             ELSE VehicleFromTries(blds, draw, attempts + 1)

\* generateVehicles: draws[i] holds the draws of the i-th vehicle
RECURSIVE VehiclesFrom(_, _, _)
VehiclesFrom(blds, draws, i) ==
    IF i > Len(draws) THEN << >>
    ELSE VehicleFromTries(blds, draws[i], 0) \o VehiclesFrom(blds, draws, i + 1)

generateVehicles(blds, draws) == VehiclesFrom(blds, draws, 1)

(***************************************************************************)
(* The match server (src/network/PizzaGameServer.ts)                       *)
(***************************************************************************)
VARIABLES
    issued,                 \* the socket ids the transport has handed out
    sockets,                \* the ids of the sockets connected to io
    gameState,              \* this.gameState
    readyPlayers,           \* this.readyPlayers
    gameLoopInterval,       \* this.gameLoopInterval is not null
    vehicleUpdateInterval,  \* this.vehicleUpdateInterval is not null
    intervals,              \* the live setInterval timers: how many of each kind
    vehicleTicks,           \* 10 Hz ticks handled in the running match
    out                     \* the events the last handler emitted, in order

\* the lobby server and its clients
VARIABLES
    netIssued,      \* the socket ids the transport has handed out
    netSockets,     \* the sockets the server holds as connected
    netClosed,      \* those of them whose client has closed its end
    netPlayers,     \* GameServer's this.gameState.players
    wire,           \* per open connection, the events sent and not yet received
    clientPlayers   \* per open connection, the players state of useGameNetwork

\* the game component
VARIABLES
    game        \* the component's gameState; endedBy names the branch of
                \* gameLoop that set gameOver

\* the player controller of the game component
VARIABLES
    controller, \* the component's gameState as the player's part of gameLoop
                \* and the input handlers read and write it
    keysRef,    \* keysRef.current: the keys held down
    played      \* how many ticks and input events the controller has handled

\* the world generators, called on their own
VARIABLES
    generated   \* the last call of a generator: its name, arguments and result

netVars == << netIssued, netSockets, netClosed, netPlayers, wire, clientPlayers >>

controlVars == << controller, keysRef, played >>

\* the collect-point route of the web API and the tables it works on
VARIABLES
    dbPlayers,     \* the rows of the table "players", by id
    dbGamePoints,  \* the rows of the table "game_points", by id
    posts          \* the POST requests: where each is, and what it has read

genVars == << generated >>

apiVars == << dbPlayers, dbGamePoints, posts >>

soloVars == << game >>

serverVars == << issued, sockets, gameState, readyPlayers, gameLoopInterval,
                 vehicleUpdateInterval, intervals, vehicleTicks, out >>

\* the server object as one value, for the handlers below
Server ==
    [ sockets               |-> sockets,
      gameState             |-> gameState,
      readyPlayers          |-> readyPlayers,
      gameLoopInterval      |-> gameLoopInterval,
      vehicleUpdateInterval |-> vehicleUpdateInterval,
      intervals             |-> intervals,
      vehicleTicks          |-> vehicleTicks,
      out                   |-> out ]

Becomes(s) ==
    /\ issued' = issued \cup s.sockets
    /\ sockets' = s.sockets
    /\ gameState' = s.gameState
    /\ readyPlayers' = s.readyPlayers
    /\ gameLoopInterval' = s.gameLoopInterval
    /\ vehicleUpdateInterval' = s.vehicleUpdateInterval
    /\ intervals' = s.intervals
    /\ vehicleTicks' = s.vehicleTicks
    /\ out' = s.out
    /\ UNCHANGED << netVars, soloVars, controlVars, genVars, apiVars >>

\* an object with no keys
EmptyMap == [x \in {} |-> 0]

\* the state the constructor and handleGameReset build
EmptyGameState ==
    [ players        |-> << >>,
      pizzas         |-> << >>,
      deliveryPoints |-> << >>,
      vehicles       |-> << >>,
      buildings      |-> << >>,
      timeLeft       |-> MatchTicks,
      gameStarted    |-> FALSE,
      gameOver       |-> FALSE ]

PlayerIds(s) == DOMAIN s.gameState.players

HasPlayer(s, id) == id \in PlayerIds(s)

\* a handler starts with nothing emitted
Begin(s) == [s EXCEPT !.out = << >>]

Emit(s, to, ev, data) ==
    [s EXCEPT !.out = Append(@, [ev |-> ev, to |-> to, data |-> data])]

\* socket.emit, socket.broadcast.emit and io.emit
ToSocket(s, id) == {id}

ToOthers(s, id) == s.sockets \ {id}

ToAll(s) == s.sockets

\* names are sequences of characters; the default is `Player <id prefix>`
DefaultName(id) == << "Player", id >>

RECURSIVE TrimLeft(_)
TrimLeft(name) ==
    IF name # << >> /\ Head(name) = " " THEN TrimLeft(Tail(name)) ELSE name

RECURSIVE TrimRight(_)
TrimRight(name) ==
    IF name # << >> /\ name[Len(name)] = " "
    THEN TrimRight(SubSeq(name, 1, Len(name) - 1)) ELSE name

Trim(name) == TrimRight(TrimLeft(name))

NewPlayer(id, spawn) ==
    [ id                  |-> id,
      name                |-> DefaultName(id),
      position            |-> spawn,
      velocity            |-> Vec(0, 0),
      rotation            |-> 0,
      isCharging          |-> FALSE,
      chargePower         |-> 0,
      pizzasRemaining     |-> TOTAL_PIZZAS,
      deliveriesCompleted |-> 0,
      isBraking           |-> FALSE,
      score               |-> 0 ]

\* f with key k bound to v
Put(f, k, v) == [x \in DOMAIN f \cup {k} |-> IF x = k THEN v ELSE f[x]]

\* f without key k
Remove(f, k) == [x \in DOMAIN f \ {k} |-> f[x]]

JoinSnapshotTo(s, id) == ToSocket(s, id)

\* io.emit in place of socket.broadcast.emit: the joiner hears of itself
JoinAnnounceToAll(s, id) == ToAll(s)

JoinAnnounceTo(s, id) == ToOthers(s, id)

\* io.on(connect): the socket is connected, then handlePlayerJoin runs
handlePlayerJoin(s0, id, spawn) ==
    LET s1 == [Begin(s0) EXCEPT !.sockets = @ \cup {id}]
        player == NewPlayer(id, spawn)
        s2 == [s1 EXCEPT !.gameState.players = Put(@, id, player)]
        s3 == Emit(s2, JoinSnapshotTo(s2, id), "gameState", s2.gameState)
    IN  Emit(s3, JoinAnnounceTo(s3, id), "playerJoined", player)

\* io.emit in place of socket.broadcast.emit: the update echoes to its sender
UpdateRelayToAll(s, id) == ToAll(s)

UpdateRelayTo(s, id) == ToOthers(s, id)

handlePlayerUpdate(s0, id, data) ==
    LET s1 == Begin(s0)
    IN  IF ~HasPlayer(s1, id) THEN s1
        ELSE LET s2 == [s1 EXCEPT
                     !.gameState.players[id].position = data.position,
                     !.gameState.players[id].rotation = data.rotation,
                     !.gameState.players[id].velocity = data.velocity,
                     !.gameState.players[id].isCharging = data.isCharging,
                     !.gameState.players[id].chargePower = data.chargePower]
             IN  Emit(s2, UpdateRelayTo(s2, id), "player_update",
                      [data EXCEPT !.id = id])

handleThrowPizza(s0, id, data) ==
    LET s1 == Begin(s0)
    IN  IF ~HasPlayer(s1, id) \/ s1.gameState.players[id].pizzasRemaining <= 0
        THEN s1
        ELSE LET pizza == [ position  |-> data.position,
                            velocity  |-> data.velocity,
                            active    |-> TRUE,
                            delivered |-> FALSE,
                            sliding   |-> TRUE,
                            playerId  |-> id ]
                 s2 == [s1 EXCEPT
                     !.gameState.pizzas = Append(@, pizza),
                     !.gameState.players[id].pizzasRemaining = @ - 1]
             IN  Emit(s2, ToAll(s2), "throw_pizza", data)

ChargeRelayTo(s, id) == ToOthers(s, id)

handlePlayerCharge(s0, id, data) ==
    LET s1 == Begin(s0)
    IN  IF ~HasPlayer(s1, id) THEN s1
        ELSE LET s2 == [s1 EXCEPT
                     !.gameState.players[id].isCharging = data.isCharging,
                     !.gameState.players[id].chargePower = data.power]
             IN  Emit(s2, ChargeRelayTo(s2, id), "player_charge",
                      [playerId |-> id, isCharging |-> data.isCharging,
                       power |-> data.power])

BrakeRelayTo(s, id) == ToOthers(s, id)

handlePlayerBrake(s0, id, data) ==
    LET s1 == Begin(s0)
    IN  IF ~HasPlayer(s1, id) THEN s1
        ELSE LET s2 == [s1 EXCEPT
                     !.gameState.players[id].isBraking = data.isBraking]
             IN  Emit(s2, BrakeRelayTo(s2, id), "player_brake",
                      [playerId |-> id, isBraking |-> data.isBraking])

NameNotifyTo(s, id) == ToAll(s)

\* the player_update that tells of a player's name
NameNotice(p) ==
    [ id          |-> p.id,
      position    |-> p.position,
      rotation    |-> p.rotation,
      velocity    |-> p.velocity,
      isCharging  |-> p.isCharging,
      chargePower |-> p.chargePower,
      name        |-> p.name ]

handleSetPlayerName(s0, id, name) ==
    LET s1 == Begin(s0)
    IN  IF ~HasPlayer(s1, id) THEN s1
        ELSE LET old == s1.gameState.players[id].name
                 new == IF Trim(name) # << >> THEN Trim(name) ELSE old
                 s2 == [s1 EXCEPT !.gameState.players[id].name = new]
             IN  Emit(s2, NameNotifyTo(s2, id), "player_update",
                      NameNotice(s2.gameState.players[id]))

\* io.emit in place of socket.emit: every socket gets the pong
handlePingToAll(s0, id, startTime) ==
    Emit(Begin(s0), ToAll(s0), "pong_event", startTime)

handlePing(s0, id, startTime) ==
    Emit(Begin(s0), ToSocket(s0, id), "pong_event", startTime)

stopGameLoop(s) ==
    LET s1 == IF s.gameLoopInterval
              THEN [s EXCEPT !.intervals.loop = @ - 1, !.gameLoopInterval = FALSE]
              ELSE s
    IN  IF s1.vehicleUpdateInterval
        THEN [s1 EXCEPT !.intervals.vehicle = @ - 1, !.vehicleUpdateInterval = FALSE]
        ELSE s1

\* both setInterval calls: the handles are overwritten, whatever they held
startGameLoop(s) ==
    [s EXCEPT !.intervals.loop = @ + 1,
              !.gameLoopInterval = TRUE,
              !.intervals.vehicle = @ + 1,
              !.vehicleUpdateInterval = TRUE]

\* gen holds the random draws of the three generators
startGame(s, gen) ==
    LET blds == generateCity(gen.city)
        s1 == [s EXCEPT
                 !.gameState.buildings = blds,
                 !.gameState.deliveryPoints = generateDeliveryPoints(blds, gen.points),
                 !.gameState.vehicles = generateVehicles(blds, gen.vehicles),
                 !.gameState.timeLeft = MatchTicks,
                 !.gameState.gameStarted = TRUE,
                 !.gameState.gameOver = FALSE,
                 !.vehicleTicks = 0]
        s2 == Emit(s1, ToAll(s1), "game_start",
                   [ buildings      |-> s1.gameState.buildings,
                     deliveryPoints |-> s1.gameState.deliveryPoints,
                     vehicles       |-> s1.gameState.vehicles,
                     timeLeft       |-> MatchTicks ])
    IN  startGameLoop(s2)

\* the test of handlePlayerReady: every player is ready
AllReady(s) == Cardinality(s.readyPlayers) = Cardinality(PlayerIds(s))

handlePlayerReady(s0, id, gen) ==
    LET s1 == [Begin(s0) EXCEPT !.readyPlayers = @ \cup {id}]
    IN  IF AllReady(s1) THEN startGame(s1, gen) ELSE s1

\* the body of handleGameReset, also run by handlePlayerDisconnect
ResetGame(s) ==
    LET s1 == [s EXCEPT !.gameState = EmptyGameState, !.readyPlayers = {}]
        s2 == stopGameLoop(s1)
    IN  Emit(s2, ToAll(s2), "game_reset", << >>)

handleGameReset(s0, id) == ResetGame(Begin(s0))

\* socket.io has removed the socket when the disconnect handler runs
handlePlayerDisconnect(s0, id) ==
    LET s1 == [Begin(s0) EXCEPT !.sockets = @ \ {id}]
        s2 == [s1 EXCEPT !.gameState.players = Remove(@, id),
                         !.readyPlayers = @ \ {id}]
        s3 == Emit(s2, ToAll(s2), "playerLeft", id)
    IN  IF PlayerIds(s3) = {} THEN ResetGame(s3) ELSE s3

checkPizzaBuildingCollision(pizza, building) ==
    /\ pizza.position.x > building.x
    /\ pizza.position.x < building.x + building.width
    /\ pizza.position.y > building.y
    /\ pizza.position.y < building.y + building.height

checkPizzaVehicleCollision(pizza, vehicle) ==
    DistLess(pizza.position.x - vehicle.position.x,
             pizza.position.y - vehicle.position.y,
             (vehicle.size.x + vehicle.size.y) \div 4)

handlePizzaCollision(pizza) ==
    [pizza EXCEPT !.velocity = Vec(Scale(pizza.velocity.x, -7, 10),
                                   Scale(pizza.velocity.y, -7, 10))]

\* every delivery scores the most a delivery can
DeliveryPointsFlat(d2, radius) == 200

\* Math.floor((1 - distance / radius) * 150) + 50, for distance <= radius,
\* from the squared distance d2 (radius is a multiple of 50 units)
DeliveryPoints(d2, radius) ==
    LET q == radius \div 50
        fits(n) == 9 * d2 <= (150 - n) * (150 - n) * q * q
    IN  50 + CHOOSE n \in 0..150 : fits(n) /\ (n = 150 \/ ~fits(n + 1))

\* the index of the first active delivery point, 0 when there is none
ActivePointIndex(points) ==
    IF \E i \in 1..Len(points) : points[i].active
    THEN CHOOSE i \in 1..Len(points) :
             points[i].active /\ \A j \in 1..(i - 1) : ~points[j].active
    ELSE 0

\* the next point comes on while the delivered one stays on
AdvanceTargetKeepingOld(points, i) ==
    IF i + 1 <= Len(points) THEN [points EXCEPT ![i + 1].active = TRUE] ELSE points

\* the active point goes off and the point after it, if any, comes on
AdvanceTarget(points, i) ==
    LET off == [points EXCEPT ![i].active = FALSE]
    IN  IF i + 1 <= Len(points) THEN [off EXCEPT ![i + 1].active = TRUE] ELSE off

checkPizzaDelivery(s, pizza) ==
    LET points == s.gameState.deliveryPoints
        i == ActivePointIndex(points)
    IN  IF i = 0 THEN s
        ELSE LET dx == pizza.position.x - points[i].position.x
                 dy == pizza.position.y - points[i].position.y
             IN  IF DistLeq(dx, dy, points[i].radius)
                 THEN LET s1 == [s EXCEPT !.gameState.deliveryPoints =
                                                  AdvanceTarget(points, i)]
                      IN  Emit(s1, ToAll(s1), "delivery_complete",
                               [ playerId |-> pizza.playerId,
                                 points   |-> DeliveryPoints(dx * dx + dy * dy,
                                                             points[i].radius) ])
                 ELSE s

\* the motion part of the filter callback of updatePizzas
MovedPizza(s, pizza) ==
    LET p1 == [pizza EXCEPT
                 !.position = Vec(pizza.position.x + pizza.velocity.x,
                                  pizza.position.y + pizza.velocity.y),
                 !.velocity = Vec(Scale(pizza.velocity.x, 98, 100),
                                  Scale(pizza.velocity.y, 98, 100))]
        blds == s.gameState.buildings
        vehs == s.gameState.vehicles
        p2 == IF \E i \in 1..Len(blds) : checkPizzaBuildingCollision(p1, blds[i])
              THEN handlePizzaCollision(p1) ELSE p1
    IN  IF \E i \in 1..Len(vehs) : checkPizzaVehicleCollision(p2, vehs[i])
        THEN handlePizzaCollision(p2) ELSE p2

PizzaStopped(pizza) ==
    pizza.sliding /\ DistLess(pizza.velocity.x, pizza.velocity.y, 35)

PizzaOutOfWorld(pizza) ==
    \/ pizza.position.x < 0 \/ pizza.position.x > Px(CITY_WIDTH)
    \/ pizza.position.y < 0 \/ pizza.position.y > Px(CITY_HEIGHT)

\* updatePizzas: the filter visits the pizzas in order; kept holds the ones
\* that stay
RECURSIVE PizzasFrom(_, _, _, _)
PizzasFrom(s, todo, k, kept) ==
    IF k > Len(todo) THEN [s EXCEPT !.gameState.pizzas = kept]
    ELSE IF ~todo[k].active THEN PizzasFrom(s, todo, k + 1, kept)
    ELSE LET p == MovedPizza(s, todo[k])
         IN  IF PizzaStopped(p)
             THEN PizzasFrom(checkPizzaDelivery(s, [p EXCEPT !.sliding = FALSE]),
                             todo, k + 1, kept)
             ELSE IF PizzaOutOfWorld(p)
             THEN PizzasFrom(s, todo, k + 1, kept)
             ELSE PizzasFrom(s, todo, k + 1, Append(kept, p))

updatePizzas(s) == PizzasFrom(s, s.gameState.pizzas, 1, << >>)

\* the match ended with no word to the players
endGameQuietly(s) == stopGameLoop([s EXCEPT !.gameState.gameOver = TRUE])

endGame(s) ==
    LET s1 == stopGameLoop([s EXCEPT !.gameState.gameOver = TRUE])
        ps == s1.gameState.players
    IN  Emit(s1, ToAll(s1), "game_over",
             [ scores     |-> [id \in DOMAIN ps |-> ps[id].score],
               deliveries |-> [id \in DOMAIN ps |-> ps[id].deliveriesCompleted] ])

\* the callback of the 60 Hz interval
gameLoopTick(s0) ==
    LET s1 == Begin(s0)
    IN  IF ~s1.gameState.gameStarted \/ s1.gameState.gameOver
        THEN stopGameLoop(s1)
        ELSE LET s2 == [s1 EXCEPT !.gameState.timeLeft = @ - 1]
             IN  IF s2.gameState.timeLeft <= 0
                 THEN endGame(s2)
                 ELSE LET s3 == updatePizzas(s2)
                      IN  Emit(s3, ToAll(s3), "pizza_update",
                               [pizzas |-> s3.gameState.pizzas])

\* sqrt(dx^2 + dy^2): exact along an axis, to the pixel otherwise
Distance(dx, dy) ==
    IF dy = 0 THEN Abs(dx)
    ELSE IF dx = 0 THEN Abs(dy)
    ELSE Px(ISqrt((dx \div 100) * (dx \div 100) + (dy \div 100) * (dy \div 100)))

updateVehicle(vehicle) ==
    LET nextPoint == vehicle.route.points[vehicle.route.currentPointIndex + 1]
        dx == nextPoint.x - vehicle.position.x
        dy == nextPoint.y - vehicle.position.y
    IN  IF DistLess(dx, dy, Px(30))
        THEN [vehicle EXCEPT !.route.currentPointIndex =
                                 (@ + 1) % Len(vehicle.route.points)]
        ELSE LET distance == Distance(dx, dy)
                 v == Vec((dx * vehicle.speed) \div distance,
                          (dy * vehicle.speed) \div distance)
             IN  [vehicle EXCEPT
                    !.velocity = v,
                    !.position = Vec(vehicle.position.x + v.x,
                                     vehicle.position.y + v.y)]

updateVehicles(s) ==
    [s EXCEPT !.gameState.vehicles =
        [i \in 1..Len(s.gameState.vehicles) |-> updateVehicle(s.gameState.vehicles[i])]]

\* the callback of the 10 Hz interval
vehicleTick(s0) ==
    LET s1 == Begin(s0)
    IN  IF s1.gameState.gameStarted /\ ~s1.gameState.gameOver
        THEN LET s2 == [updateVehicles(s1) EXCEPT !.vehicleTicks = @ + 1]
             IN  Emit(s2, ToAll(s2), "vehicle_update",
                      [vehicles |-> s2.gameState.vehicles])
        ELSE s1

(***************************************************************************)
(* The inputs of the match server: what clients send and what              *)
(* Math.random() draws                                                     *)
(***************************************************************************)
\* spawn positions drawn by handlePlayerJoin
SpawnDraws == { Vec(Px(50), Px(50)) }

\* two street crossings and a point inside a building
PointA == Vec(Px(200), Px(200))

PointB == Vec(Px(400), Px(200))

PointInBuilding == Vec(Px(100), Px(100))

\* the draws of one startGame: a city of whole blocks with two targets and
\* a car, a mixed city whose first target draw is rejected, with a truck
\* whose first position is rejected, and a city where every target draw is
\* rejected
GenDraws ==
    { [ city     |-> [k \in 1..CityBlocks |-> 1],
        points   |-> [k \in 1..MaxAttempts |-> IF k % 2 = 1 THEN PointA ELSE PointB],
        vehicles |-> [i \in 1..MaxVehicles |->
                        [ tries |-> << [position |-> Vec(Px(210), 0), truck |-> FALSE] >>,
                          speed |-> Px(1),
                          route |-> [dir |-> Vec(1, 0), steps |-> << >>] ]] ],
      [ city     |-> [k \in 1..CityBlocks |-> (k % 3) + 1],
        points   |-> [k \in 1..MaxAttempts |-> IF k = 1 THEN PointInBuilding ELSE PointA],
        vehicles |-> [i \in 1..MaxVehicles |->
                        [ tries |-> << [position |-> PointInBuilding, truck |-> TRUE],
                                       [position |-> Vec(Px(200), Px(240)), truck |-> TRUE] >>,
                          speed |-> 125,
                          route |-> [dir |-> Vec(0, 1),
                                     steps |-> << "turnMinus", "turnPlus" >>] ]] ],
      [ city     |-> [k \in 1..CityBlocks |-> 3],
        points   |-> [k \in 1..MaxAttempts |-> PointInBuilding],
        vehicles |-> [i \in 1..MaxVehicles |->
                        [ tries |-> << [position |-> PointInBuilding, truck |-> FALSE] >>,
                          speed |-> Px(1),
                          route |-> [dir |-> Vec(1, 0), steps |-> << >>] ]] ] }

UpdateInputs ==
    { [ id          |-> c,
        position    |-> Vec(Px(300), 0),
        rotation    |-> 90,
        velocity    |-> Vec(0, Px(2)),
        isCharging  |-> TRUE,
        chargePower |-> 5,
        name        |-> << "A", "n", "a" >>,
        isReady     |-> TRUE ] : c \in Conns }

\* a throw onto PointA and one that leaves the city
ThrowInputs ==
    { [playerId |-> "s1", position |-> PointA, velocity |-> Vec(0, 0)],
      [playerId |-> "s1", position |-> Vec(Px(2390), Px(800)),
       velocity |-> Vec(Px(30), 0)] }

ChargeInputs ==
    { [isCharging |-> TRUE, power |-> 5], [isCharging |-> FALSE, power |-> 0] }

BrakeInputs == { [isBraking |-> TRUE], [isBraking |-> FALSE] }

NameInputs == { << " ", " " >>, << " ", "A", "n", "a", " " >> }

PingInputs == { 0, 1234 }

(***************************************************************************)
(* The match server's actions: one per socket event and timer callback     *)
(***************************************************************************)
\* a connection gets an id the transport has not handed out before
Connect(id) ==
    /\ id \notin issued
    /\ \E spawn \in SpawnDraws : Becomes(handlePlayerJoin(Server, id, spawn))

PlayerUpdate(id) ==
    /\ id \in sockets
    /\ \E data \in UpdateInputs : Becomes(handlePlayerUpdate(Server, id, data))

ThrowPizza(id) ==
    /\ id \in sockets
    /\ HasPlayer(Server, id) =>
           /\ gameState.players[id].pizzasRemaining > TOTAL_PIZZAS - MaxThrows
           /\ Len(gameState.pizzas) < MaxThrows
    /\ \E data \in ThrowInputs : Becomes(handleThrowPizza(Server, id, data))

PlayerCharge(id) ==
    /\ id \in sockets
    /\ \E data \in ChargeInputs : Becomes(handlePlayerCharge(Server, id, data))

PlayerBrake(id) ==
    /\ id \in sockets
    /\ \E data \in BrakeInputs : Becomes(handlePlayerBrake(Server, id, data))

ReadyToStart(id) ==
    /\ id \in sockets
    /\ intervals.loop < MaxIntervals
    /\ \E gen \in GenDraws : Becomes(handlePlayerReady(Server, id, gen))

GameReset(id) ==
    /\ id \in sockets
    /\ Becomes(handleGameReset(Server, id))

Ping(id) ==
    /\ id \in sockets
    /\ \E t \in PingInputs : Becomes(handlePing(Server, id, t))

Disconnect(id) ==
    /\ id \in sockets
    /\ Becomes(handlePlayerDisconnect(Server, id))

SetPlayerName(id) ==
    /\ id \in sockets
    /\ \E name \in NameInputs : Becomes(handleSetPlayerName(Server, id, name))

GameLoopTick ==
    /\ intervals.loop > 0
    /\ Becomes(gameLoopTick(Server))

VehicleTick ==
    /\ intervals.vehicle > 0
    /\ vehicleTicks < MaxVehicleTicks
    /\ Becomes(vehicleTick(Server))

ServerInit ==
    /\ issued = {}
    /\ sockets = {}
    /\ gameState = EmptyGameState
    /\ readyPlayers = {}
    /\ gameLoopInterval = FALSE
    /\ vehicleUpdateInterval = FALSE
    /\ intervals = [loop |-> 0, vehicle |-> 0]
    /\ vehicleTicks = 0
    /\ out = << >>


(***************************************************************************)
(* The lobby server (src/network/GameServer.ts) and its clients            *)
(* (src/network/client/hooks/useGameNetwork.ts) over ordered, reliable     *)
(* connections                                                             *)
(***************************************************************************)
PLAYER_SIZE == 25
WORLD_MIN_X == -500
WORLD_MAX_X == 500
WORLD_MIN_Y == -500
WORLD_MAX_Y == 500

\* events on their way to one client
MaxInFlight == 2

\* the socket ids the transport hands out to lobby clients
NetConns == {"c1", "c2", "c3"}

\* the lobby as one value, for the handlers below
Net ==
    [ sockets |-> netSockets,
      closed  |-> netClosed,
      players |-> netPlayers,
      wire    |-> wire,
      clients |-> clientPlayers ]

NetBecomes(n) ==
    /\ netIssued' = netIssued \cup n.sockets
    /\ netSockets' = n.sockets
    /\ netClosed' = n.closed
    /\ netPlayers' = n.players
    /\ wire' = n.wire
    /\ clientPlayers' = n.clients
    /\ UNCHANGED << serverVars, soloVars, controlVars, genVars, apiVars >>

\* an emit queues the event on every open connection among its receivers
NetSend(n, to, ev, data) ==
    [n EXCEPT !.wire = [c \in DOMAIN @ |->
                           IF c \in to THEN Append(@[c], [ev |-> ev, data |-> data])
                           ELSE @[c]]]

ClampX(x) == Max(WORLD_MIN_X, Min(x, WORLD_MAX_X - PLAYER_SIZE))

ClampY(y) == Max(WORLD_MIN_Y, Min(y, WORLD_MAX_Y - PLAYER_SIZE))

\* io.on(connect): the connection opens, then handlePlayerJoin runs; draw is
\* the position Math.random() gave
GameServer_handlePlayerJoin(n0, id, draw) ==
    LET player == [ id |-> id, x |-> ClampX(draw.x), y |-> ClampY(draw.y),
                    lastShotTime |-> 0 ]
        n1 == [n0 EXCEPT !.sockets = @ \cup {id},
                         !.wire = Put(@, id, << >>),
                         !.clients = Put(@, id, EmptyMap)]
        n2 == [n1 EXCEPT !.players = Put(@, id, player)]
        n3 == NetSend(n2, ToSocket(n2, id), "gameState", [players |-> n2.players])
    IN  NetSend(n3, ToOthers(n3, id), "playerJoined", player)

GameServer_handlePlayerMove(n0, id, data) ==
    IF id \notin DOMAIN n0.players THEN n0
    ELSE LET n1 == [n0 EXCEPT !.players[id].x = ClampX(data.x),
                              !.players[id].y = ClampY(data.y)]
         IN  NetSend(n1, ToAll(n1), "playerMoved", n1.players[id])

GameServer_handlePlayerDisconnect(n0, id) ==
    LET n1 == [n0 EXCEPT !.sockets = @ \ {id},
                         !.closed = @ \ {id},
                         !.players = Remove(@, id)]
    IN  NetSend(n1, ToAll(n1), "playerLeft", id)

\* a player as the client keeps it
ClientPlayerData(player) ==
    [ id |-> player.id, x |-> player.x, y |-> player.y,
      lastShotTime |-> player.lastShotTime,
      targetX |-> player.x, targetY |-> player.y ]

onGameState(prev, state) ==
    [id \in DOMAIN state.players |-> ClientPlayerData(state.players[id])]

onPlayerJoined(prev, player) == Put(prev, player.id, ClientPlayerData(player))

\* a handler that leaves the position it has
onPlayerMovedIgnored(prev, player) == prev

onPlayerMoved(prev, player) ==
    IF player.id \notin DOMAIN prev THEN prev
    ELSE Put(prev, player.id, ClientPlayerData(player))

onPlayerLeft(prev, id) == Remove(prev, id)

\* the callback GameClient runs for an event
Received(prev, msg) ==
    CASE msg.ev = "gameState"    -> onGameState(prev, msg.data)
      [] msg.ev = "playerJoined" -> onPlayerJoined(prev, msg.data)
      [] msg.ev = "playerMoved"  -> onPlayerMoved(prev, msg.data)
      [] msg.ev = "playerLeft"   -> onPlayerLeft(prev, msg.data)

\* the client takes the next event off its connection
Deliver(n, c) ==
    [n EXCEPT !.clients[c] = Received(@, Head(n.wire[c])),
              !.wire[c] = Tail(@)]

\* the client closes its end: onDisconnect empties its players, and what
\* was on its way to it is lost
ClientClose(n, c) ==
    [n EXCEPT !.closed = @ \cup {c},
              !.wire = Remove(@, c),
              !.clients = Remove(@, c)]

\* positions Math.random() gives a joining player, and positions clients send
JoinDraws == { [x |-> -500, y |-> 499], [x |-> 0, y |-> 10] }

MoveInputs == { [x |-> 600, y |-> -600], [x |-> 20, y |-> 480] }

\* the server emits while every connection has room for the event
WireRoom == \A c \in DOMAIN wire : Len(wire[c]) < MaxInFlight

NetConnect(id) ==
    /\ id \notin netIssued
    /\ WireRoom
    /\ \E draw \in JoinDraws : NetBecomes(GameServer_handlePlayerJoin(Net, id, draw))

NetMove(id) ==
    /\ id \in netSockets \ netClosed
    /\ WireRoom
    /\ \E data \in MoveInputs : NetBecomes(GameServer_handlePlayerMove(Net, id, data))

NetClose(id) ==
    /\ id \in netSockets \ netClosed
    /\ NetBecomes(ClientClose(Net, id))

NetDisconnect(id) ==
    /\ id \in netClosed
    /\ WireRoom
    /\ NetBecomes(GameServer_handlePlayerDisconnect(Net, id))

NetDeliver(id) ==
    /\ id \in DOMAIN wire
    /\ wire[id] # << >>
    /\ NetBecomes(Deliver(Net, id))

NetInit ==
    /\ netIssued = {}
    /\ netSockets = {}
    /\ netClosed = {}
    /\ netPlayers = EmptyMap
    /\ wire = EmptyMap
    /\ clientPlayers = EmptyMap

(***************************************************************************)
(* The match loop of the game component (src/pizza-delivery-game.tsx):     *)
(* the clock, the end of the match, throws and deliveries.  The player's   *)
(* own motion is left out: a throw says where the player stands and how    *)
(* hard it throws, and the throws stay clear of buildings and traffic.     *)
(***************************************************************************)
\* 60 Hz ticks on the clock of a match of the component (GAME_DURATION * 60)
SoloTicks == 12
\* pizzas of the component in flight at once
MaxFlying == 2
\* the ticks of a second: the loop takes 1 / 60 off timeLeft
TicksPerSecond == 60

\* useState's initial value
InitialGame ==
    [ gameStarted         |-> FALSE,
      gameOver            |-> FALSE,
      timeLeft            |-> SoloTicks,
      pizzasRemaining     |-> TOTAL_PIZZAS,
      pizzas              |-> << >>,
      deliveryPoints      |-> << >>,
      currentDelivery     |-> 0,
      deliveriesCompleted |-> 0,
      score               |-> 0,
      isCharging          |-> FALSE,
      stunned             |-> 0,
      endedBy             |-> "none" ]

\* the component's generateDeliveryPoints: a draw is kept when it is on a
\* street and two blocks away from every point kept before
TooClose(p, points) ==
    \E k \in 1..Len(points) :
        DistLess(p.x - points[k].position.x, p.y - points[k].position.y,
                 Px(BLOCK_SIZE * 2))

RECURSIVE SoloPointsFrom(_, _, _, _)
SoloPointsFrom(blds, draws, attempts, points) ==
    IF Len(points) < REQUIRED_DELIVERIES /\ attempts < Len(draws)
    THEN LET p == draws[attempts + 1]
         IN  SoloPointsFrom(blds, draws, attempts + 1,
                 IF isOnStreet(p.x, p.y, Vec(Px(80), Px(80)), blds)
                    /\ ~TooClose(p, points)
                 THEN Append(points, [position |-> p,
                                      active |-> (Len(points) = 0),
                                      radius |-> Px(40)])
                 ELSE points)
    ELSE points

initGame(g, draws) ==
    LET points == SoloPointsFrom(generateCity(draws.city), draws.points, 0, << >>)
    IN  [g EXCEPT !.deliveryPoints = [k \in 1..Len(points) |->
                                         [points[k] EXCEPT !.active = (k = 1)]],
                  !.gameStarted = TRUE,
                  !.gameOver = FALSE,
                  !.timeLeft = SoloTicks,
                  !.pizzasRemaining = TOTAL_PIZZAS,
                  !.score = 0,
                  !.deliveriesCompleted = 0,
                  !.currentDelivery = 0,
                  !.stunned = 0,
                  !.isCharging = FALSE,
                  !.endedBy = "none"]

\* keydown of the space bar
startCharging(g) ==
    IF g.gameStarted /\ ~g.gameOver /\ ~(g.stunned > 0 \/ g.pizzasRemaining <= 0)
    THEN [g EXCEPT !.isCharging = TRUE] ELSE g

\* keyup of the space bar: throw is the player's position and the velocity
\* its rotation and charge give
releaseThrow(g, throw) ==
    IF g.isCharging /\ g.stunned <= 0 /\ g.pizzasRemaining > 0
    THEN [g EXCEPT !.pizzas = Append(@, [ position  |-> throw.position,
                                          velocity  |-> throw.velocity,
                                          active    |-> TRUE,
                                          delivered |-> FALSE,
                                          sliding   |-> TRUE ]),
                   !.isCharging = FALSE,
                   !.pizzasRemaining = @ - 1]
    ELSE [g EXCEPT !.isCharging = FALSE]

\* Math.floor(timeLeft * 10), timeLeft counted in ticks
TimeBonus(timeLeft) == (timeLeft * 10) \div TicksPerSecond

\* the pizza touches the circle of the current delivery point
OnCurrentPoint(g, pizza) ==
    LET i == g.currentDelivery + 1
    IN  /\ i <= Len(g.deliveryPoints)
        /\ g.deliveryPoints[i].active
        /\ DistLeq(pizza.position.x - g.deliveryPoints[i].position.x,
                   pizza.position.y - g.deliveryPoints[i].position.y,
                   g.deliveryPoints[i].radius + Px(8))

\* the distance past the pizza's own radius, as a share of the point's radius
EffectiveDistance(g, pizza) ==
    LET point == g.deliveryPoints[g.currentDelivery + 1]
    IN  Max(0, Distance(pizza.position.x - point.position.x,
                        pizza.position.y - point.position.y) - Px(8))

\* base points, accuracy bonus and speed bonus of a delivery on touch
TouchPoints(g, pizza) ==
    LET radius == g.deliveryPoints[g.currentDelivery + 1].radius
        speed == Distance(pizza.velocity.x, pizza.velocity.y)
    IN  100 + (100 * (radius - EffectiveDistance(g, pizza))) \div radius
            + Min(50, speed \div 10)

\* the points of a delivery by a pizza that came to rest
RestPoints(g, pizza) ==
    LET radius == g.deliveryPoints[g.currentDelivery + 1].radius
    IN  (150 * (radius - EffectiveDistance(g, pizza))) \div radius + 50

\* what both delivery branches do to the match
Delivered(g, points) ==
    LET i == g.currentDelivery + 1
        more == g.currentDelivery < Len(g.deliveryPoints) - 1
        off == [g.deliveryPoints EXCEPT ![i].active = FALSE]
    IN  [g EXCEPT !.score = @ + points,
                  !.pizzasRemaining = Min(TOTAL_PIZZAS, @ + 1),
                  !.deliveriesCompleted = @ + 1,
                  !.deliveryPoints = IF more THEN [off EXCEPT ![i + 1].active = TRUE]
                                     ELSE off,
                  !.currentDelivery = IF more THEN @ + 1 ELSE @]

\* the filter callback over the pizzas, in order; kept holds the ones that
\* stay
RECURSIVE SoloPizzasFrom(_, _, _, _)
SoloPizzasFrom(g, todo, k, kept) ==
    IF k > Len(todo) THEN [g EXCEPT !.pizzas = kept]
    ELSE IF ~todo[k].active THEN SoloPizzasFrom(g, todo, k + 1, kept)
    ELSE LET p1 == [todo[k] EXCEPT
                      !.position = Vec(@.x + todo[k].velocity.x,
                                       @.y + todo[k].velocity.y)]
             p2 == [p1 EXCEPT !.velocity = Vec(Scale(@.x, 98, 100),
                                               Scale(@.y, 98, 100))]
         IN  IF OnCurrentPoint(g, p1)
             THEN SoloPizzasFrom(Delivered(g, TouchPoints(g, p1)), todo, k + 1, kept)
             ELSE IF PizzaStopped(p2)
             THEN SoloPizzasFrom(IF OnCurrentPoint(g, p2)
                                 THEN Delivered(g, RestPoints(g, p2)) ELSE g,
                                 todo, k + 1, kept)
             ELSE IF PizzaOutOfWorld(p2)
             THEN SoloPizzasFrom([g EXCEPT !.score = IF p2.sliding
                                                     THEN Max(0, @ - 30) ELSE @],
                                 todo, k + 1, kept)
             ELSE SoloPizzasFrom(g, todo, k + 1, Append(kept, p2))

NoActivePizza(g) == \A k \in 1..Len(g.pizzas) : ~g.pizzas[k].active

\* one run of gameLoop's state update
gameLoop(g0) ==
    LET g == [g0 EXCEPT !.timeLeft = @ - 1]
    IN  IF g.timeLeft <= 0 \/ (g.pizzasRemaining <= 0 /\ NoActivePizza(g))
        THEN [g EXCEPT !.gameOver = TRUE,
                       !.endedBy = IF g.timeLeft <= 0 THEN "timeout" ELSE "stalemate"]
        ELSE IF g.deliveriesCompleted >= REQUIRED_DELIVERIES
        THEN [g EXCEPT !.gameOver = TRUE,
                       !.score = @ + TimeBonus(g.timeLeft),
                       !.endedBy = "victory"]
        ELSE SoloPizzasFrom(g, g.pizzas, 1, << >>)

\* the draws of initGame: a city of whole blocks and ten points two blocks
\* apart on its streets, after a draw that lands in a building
SoloDraws ==
    { [ city   |-> [k \in 1..CityBlocks |-> 1],
        points |-> << PointInBuilding >> \o
                   [k \in 1..REQUIRED_DELIVERIES |->
                       Vec(Px(400 * ((k - 1) % 5) + 300),
                           Px(900 + 400 * ((k - 1) \div 5)))] ] }

\* throws from the spot of one of the next delivery points, with no push,
\* and a throw that comes to rest away from every point
SoloThrows ==
    { [position |-> game.deliveryPoints[i].position, velocity |-> Vec(0, 0)] :
          i \in { j \in 1..Len(game.deliveryPoints) :
                      /\ j > game.currentDelivery
                      /\ j <= game.currentDelivery + MaxFlying } }
    \cup { [position |-> Vec(Px(100), Px(1500)), velocity |-> Vec(20, 0)] }

SoloInitGame ==
    /\ ~game.gameStarted \/ game.gameOver
    /\ \E draws \in SoloDraws : game' = initGame(game, draws)
    /\ UNCHANGED << serverVars, netVars, controlVars, genVars, apiVars >>

SoloKeyDown ==
    /\ game.gameStarted /\ ~game.gameOver
    /\ game' = startCharging(game)
    /\ UNCHANGED << serverVars, netVars, controlVars, genVars, apiVars >>

SoloKeyUp ==
    /\ game.isCharging
    /\ Len(game.pizzas) < MaxFlying
    /\ \E throw \in SoloThrows : game' = releaseThrow(game, throw)
    /\ UNCHANGED << serverVars, netVars, controlVars, genVars, apiVars >>

\* the effect that schedules gameLoop runs while the match is on
SoloTick ==
    /\ game.gameStarted /\ ~game.gameOver
    /\ game' = gameLoop(game)
    /\ UNCHANGED << serverVars, netVars, controlVars, genVars, apiVars >>

\* throws across the current delivery point, from twenty pixels west of its
\* centre at ten pixels a tick, and a throw that leaves the city by its east
\* side
SoloCrossThrows ==
    { [position |-> Vec(game.deliveryPoints[i].position.x - Px(20),
                        game.deliveryPoints[i].position.y),
       velocity |-> Vec(Px(10), 0)] :
          i \in { j \in 1..Len(game.deliveryPoints) : j = game.currentDelivery + 1 } }
    \cup { [position |-> Vec(Px(CITY_WIDTH - 10), Px(1500)), velocity |-> Vec(Px(30), 0)] }

\* throws of a match of the component that cross the point or the city's edge
MaxCrossThrows == 2

SoloKeyUpAcross ==
    /\ game.isCharging
    /\ Len(game.pizzas) < MaxFlying
    /\ (TOTAL_PIZZAS - game.pizzasRemaining) + game.deliveriesCompleted < MaxCrossThrows
    /\ \E throw \in SoloCrossThrows : game' = releaseThrow(game, throw)
    /\ UNCHANGED << serverVars, netVars, controlVars, genVars, apiVars >>

SoloInit == game = InitialGame

(***************************************************************************)
(* The player controller of the game component                             *)
(* (src/pizza-delivery-game.tsx): the input handlers and the player's part *)
(* of gameLoop, in a running match.  Speeds, velocities and positions are  *)
(* in ten-thousandths of a pixel, angles in thousandths of a radian, the   *)
(* charge in tenths.  The clock, the end of the match and the flight of    *)
(* the pizzas, which the same loop handles, are gameLoop above.            *)
(***************************************************************************)
\* 60 Hz ticks the controller runs
MaxPlayerTicks == 95
\* input events the player makes
MaxKeyEvents == 2
\* the ticks within which the player makes them
InputTicks == 4

CANVAS_WIDTH == 1200
CANVAS_HEIGHT == 800
PLAYER_SPEED_MIN == 2000
PLAYER_SPEED_NORMAL == 7000
PLAYER_SPEED_MAX == 32000
PLAYER_TURN_SPEED == 60
PLAYER_BRAKE_COOLDOWN == 600
MAX_CHARGE_POWER == 150
STUN_DURATION == 60
SPEED_TRANSITION_FRAMES == 90
SPEED_STEP == 5600
SPEED_MIN == 7000
SPEED_MAX == 50000

Fine(n) == n * 10000

\* Math.PI, and Math.sin and Math.cos times 1000 (Bhaskara's approximation,
\* exact at the multiples of a quarter turn)
PI == 3142

SinHalf(x) ==
    LET p == x * (PI - x)
    IN  (4 * p) \div ((((5 * PI * PI) \div 4) - p) \div 1000)

Sin(r) ==
    LET x == r % (2 * PI)
    IN  IF x <= PI THEN SinHalf(x) ELSE -SinHalf(x - PI)

Cos(r) == Sin(r + PI \div 2)

\* the angle brought into [-PI, PI] by whole turns
RECURSIVE NormAngle(_)
NormAngle(a) ==
    IF a > PI THEN NormAngle(a - 2 * PI)
    ELSE IF a < -PI THEN NormAngle(a + 2 * PI)
    ELSE a

\* useState's initial value as initGame leaves it; player.position,
\* player.velocity and player.rotation are fields of the one record
InitialController ==
    [ position               |-> Vec(Fine(CANVAS_WIDTH \div 2), Fine(CANVAS_HEIGHT \div 2)),
      velocity               |-> Vec(0, 0),
      rotation               |-> 0,
      pizzas                 |-> << >>,
      vehicles               |-> << >>,
      isCharging             |-> FALSE,
      chargePower            |-> 0,
      stunned                |-> 0,
      pizzasRemaining        |-> TOTAL_PIZZAS,
      playerPreviousRotation |-> 0,
      isBraking              |-> FALSE,
      brakeCooldown          |-> 0,
      currentSpeed           |-> PLAYER_SPEED_NORMAL,
      isTurning              |-> FALSE,
      turnFrictionPhase      |-> "idle",
      turnFrictionTimer      |-> 0,
      collisionRecoveryTimer |-> 0,
      targetMaxSpeed         |-> PLAYER_SPEED_NORMAL,
      spinTimer              |-> 0,
      spinCount              |-> 0,
      spinAngularSpeed       |-> 0,
      maxSpeed               |-> PLAYER_SPEED_NORMAL ]

\* player.size
PlayerBox == Vec(Fine(20), Fine(12))

\* the buildings of the match, every block drawn as one large building
ControlCity ==
    LET blds == generateCity([k \in 1..CityBlocks |-> 1])
    IN  [i \in 1..Len(blds) |-> Rect(blds[i].x * 100, blds[i].y * 100,
                                     blds[i].width * 100, blds[i].height * 100)]

\* keydown: Shift raises the speed limit, Control lowers it, the space bar
\* starts the charge
handleKeyDown(c, key) ==
    LET c1 == IF key = "shift"
              THEN [c EXCEPT !.isBraking = TRUE,
                             !.brakeCooldown = PLAYER_BRAKE_COOLDOWN,
                             !.maxSpeed = Min(SPEED_MAX, @ + SPEED_STEP)]
              ELSE c
        c2 == IF key = "control"
              THEN [c1 EXCEPT !.maxSpeed = Max(SPEED_MIN, @ - SPEED_STEP)]
              ELSE c1
    IN  IF key = " " /\ ~(c2.stunned > 0 \/ c2.pizzasRemaining <= 0)
        THEN [c2 EXCEPT !.isCharging = TRUE]
        ELSE c2

\* the new pizza of a throw along the unit vector (nx, ny) / 1000
Thrown(c, nx, ny) ==
    [c EXCEPT !.pizzas = Append(@, [ position  |-> c.position,
                                     velocity  |-> Vec(nx * c.chargePower,
                                                       ny * c.chargePower),
                                     active    |-> TRUE,
                                     delivered |-> FALSE,
                                     sliding   |-> TRUE ]),
              !.isCharging = FALSE,
              !.chargePower = 0,
              !.pizzasRemaining = @ - 1]

\* a release that throws nothing
ThrowNothing(c) == [c EXCEPT !.isCharging = FALSE, !.chargePower = 0]

\* keyup: Shift lets go of the brake, the space bar throws along the
\* player's rotation
handleKeyUp(c, key) ==
    LET c1 == IF key = "shift" THEN [c EXCEPT !.isBraking = FALSE] ELSE c
    IN  IF key = " "
        THEN IF c1.isCharging /\ c1.stunned <= 0 /\ c1.pizzasRemaining > 0
             THEN Thrown(c1, Cos(c1.rotation), Sin(c1.rotation))
             ELSE ThrowNothing(c1)
        ELSE c1

\* mousedown of the left button
handleMouseDown(c) == [c EXCEPT !.isCharging = TRUE]

\* mouseup of the left button: aim is the pointer's offset from the player
handleMouseUp(c, aim) ==
    LET distance == Distance(aim.x, aim.y)
    IN  IF c.isCharging /\ c.stunned <= 0 /\ c.pizzasRemaining > 0 /\ distance > 0
        THEN Thrown(c, (aim.x * 1000) \div distance, (aim.y * 1000) \div distance)
        ELSE ThrowNothing(c)

\* gameLoop, the brake: the cooldown runs down
updateBrake(c) == IF c.brakeCooldown > 0 THEN [c EXCEPT !.brakeCooldown = @ - 1] ELSE c

\* gameLoop, the friction of a turn: starting to turn slows the player down
\* for 15 ticks, after that and after the turn it speeds up for 30
turnFriction(c, keys) ==
    LET isTurning == "a" \in keys \/ "d" \in keys
        c1 == IF ~c.isTurning /\ isTurning
              THEN [c EXCEPT !.turnFrictionPhase = "decelerating",
                             !.turnFrictionTimer = 15]
              ELSE IF c.isTurning /\ ~isTurning
              THEN [c EXCEPT !.turnFrictionPhase = "accelerating",
                             !.turnFrictionTimer = 30]
              ELSE c
        c2 == [c1 EXCEPT !.isTurning = isTurning]
    IN  IF c2.turnFrictionPhase = "decelerating"
        THEN LET c3 == [c2 EXCEPT
                          !.currentSpeed =
                              Max(PLAYER_SPEED_MIN,
                                  @ - ((PLAYER_SPEED_NORMAL * 4) \div 10) \div 15),
                          !.turnFrictionTimer = @ - 1]
             IN  IF c3.turnFrictionTimer <= 0
                 THEN [c3 EXCEPT !.turnFrictionPhase = "accelerating",
                                 !.turnFrictionTimer = 30]
                 ELSE c3
        ELSE IF c2.turnFrictionPhase = "accelerating"
        THEN LET c3 == [c2 EXCEPT
                          !.currentSpeed =
                              Min(PLAYER_SPEED_MAX,
                                  @ + ((PLAYER_SPEED_NORMAL * 4) \div 10) \div 30),
                          !.turnFrictionTimer = @ - 1]
             IN  IF c3.turnFrictionTimer <= 0
                 THEN [c3 EXCEPT !.turnFrictionPhase = "idle"]
                 ELSE c3
        ELSE c2

\* the hard cap left out: the speed may stay above the limit
hardCapNever(c) == c

\* gameLoop, the hard cap of the speed
hardCap(c) ==
    IF c.currentSpeed > c.maxSpeed THEN [c EXCEPT !.currentSpeed = c.maxSpeed] ELSE c

\* gameLoop, the speed envelope: the speed eases towards maxSpeed by one
\* part in SPEED_TRANSITION_FRAMES of the gap, and never ends above it
speedEnvelope(c, keys) ==
    LET c1 == [c EXCEPT !.targetMaxSpeed =
                  IF "shift" \in keys THEN PLAYER_SPEED_MAX
                  ELSE IF "control" \in keys THEN PLAYER_SPEED_MIN
                  ELSE PLAYER_SPEED_NORMAL]
        c2 == IF c1.currentSpeed < c1.maxSpeed
              THEN [c1 EXCEPT !.currentSpeed =
                       Min(c1.maxSpeed,
                           @ + (c1.maxSpeed - @) \div SPEED_TRANSITION_FRAMES)]
              ELSE IF c1.currentSpeed > c1.maxSpeed
              THEN [c1 EXCEPT !.currentSpeed =
                       Max(c1.maxSpeed,
                           @ - (@ - c1.maxSpeed) \div SPEED_TRANSITION_FRAMES)]
              ELSE c1
    IN  hardCap(c2)

\* gameLoop, the charge: it grows by 0.3 a tick and wraps to zero past the cap
updateCharge(c) ==
    IF c.isCharging /\ c.stunned <= 0
    THEN [c EXCEPT !.chargePower = IF @ + 3 > MAX_CHARGE_POWER THEN 0 ELSE @ + 3]
    ELSE c

\* gameLoop, the stun runs down
updateStun(c) == IF c.stunned > 0 THEN [c EXCEPT !.stunned = @ - 1] ELSE c

\* gameLoop, a spin block (there are two in a tick): the player turns on the
\* spot, the spin timer runs down, a spent timer takes one spin off, and the
\* last spin ends the stun and leaves the player at rest
spinStep(c) ==
    LET c1 == [c EXCEPT !.rotation = @ + c.spinAngularSpeed,
                        !.spinAngularSpeed = Scale(@, 97, 100),
                        !.velocity = Vec(0, 0),
                        !.spinTimer = @ - 1]
    IN  IF c1.spinTimer <= 0
        THEN LET c2 == [c1 EXCEPT !.spinCount = @ - 1, !.spinTimer = 60]
             IN  IF c2.spinCount = 0
                 THEN [c2 EXCEPT !.stunned = 0,
                                 !.spinAngularSpeed = 0,
                                 !.currentSpeed = 0]
                 ELSE c2
        ELSE c1

\* the movement of a player that keeps the velocity it had
normalMoveCoasting(c, keys) == [c EXCEPT !.playerPreviousRotation = c.rotation]

\* gameLoop, the movement of a player in control: the keys turn it and it
\* always moves ahead at its current speed
normalMove(c, keys) ==
    LET rotationChange == (IF "a" \in keys THEN -PLAYER_TURN_SPEED ELSE 0)
                          + (IF "d" \in keys THEN PLAYER_TURN_SPEED ELSE 0)
                          + (IF "s" \in keys THEN (PI * 2) \div 100 ELSE 0)
        rotation == c.rotation + rotationChange
    IN  [c EXCEPT !.playerPreviousRotation = c.rotation,
                  !.rotation = rotation,
                  !.velocity = Vec(Scale(Cos(rotation), c.currentSpeed, 1000),
                                   Scale(Sin(rotation), c.currentSpeed, 1000))]

\* gameLoop, the movement of a stunned player with no spin: it keeps turning
\* and gliding, and near the end of the stun it turns back towards the
\* rotation it had
stunnedMove(c) ==
    LET c1 == [c EXCEPT !.rotation = @ + 300,
                        !.velocity = Vec(Scale(c.velocity.x, 95, 100),
                                         Scale(c.velocity.y, 95, 100))]
    IN  IF c1.stunned < 30
        THEN [c1 EXCEPT !.rotation =
                 @ + Scale(NormAngle(c1.playerPreviousRotation - @), 8, 100)]
        ELSE c1

\* gameLoop, the movement of the player
movePlayer(c, keys) ==
    IF c.stunned <= 0 /\ c.spinCount = 0 THEN normalMove(c, keys)
    ELSE IF c.spinCount > 0 THEN spinStep(c)
    ELSE stunnedMove(c)

\* gameLoop, the collision with the buildings: a step that stays on the
\* street is taken; one that does not is not taken and, unless the player is
\* stunned already, stuns it for three spins; the world's margin clamps
collideBuildings(c) ==
    LET newPlayerX == c.position.x + c.velocity.x
        newPlayerY == c.position.y + c.velocity.y
        c1 == IF isOnStreet(newPlayerX, newPlayerY, PlayerBox, ControlCity)
              THEN [c EXCEPT !.position = Vec(newPlayerX, newPlayerY)]
              ELSE IF c.stunned <= 0
              THEN [c EXCEPT !.stunned = STUN_DURATION,
                             !.isCharging = FALSE,
                             !.chargePower = 0,
                             !.spinCount = 3,
                             !.spinTimer = 60,
                             !.spinAngularSpeed = 350,
                             !.currentSpeed = 0]
              ELSE c
    IN  [c1 EXCEPT !.position =
            Vec(Max(Fine(20), Min(Fine(CITY_WIDTH - 20), c1.position.x)),
                Max(Fine(20), Min(Fine(CITY_HEIGHT - 20), c1.position.y)))]

\* updateVehiclePosition for a vehicle on a straight stretch, heading east
\* towards a route point further away than it gets: its rotation is its
\* target's, no other vehicle slows it, and a step off the streets or off
\* the world is not taken
updateVehiclePosition(vehicle) ==
    LET newX == vehicle.position.x + vehicle.speed
        newY == vehicle.position.y
    IN  IF /\ newX >= Fine(STREET_WIDTH)
           /\ newX <= Fine(CITY_WIDTH - STREET_WIDTH)
           /\ newY >= Fine(STREET_WIDTH)
           /\ newY <= Fine(CITY_HEIGHT - STREET_WIDTH)
           /\ isOnStreet(newX, newY, vehicle.size, ControlCity)
        THEN [vehicle EXCEPT !.position = Vec(newX, newY)]
        ELSE vehicle

\* the player within 25 pixels of the vehicle
VehicleTouches(c, vehicle) ==
    DistLess((vehicle.position.x - c.position.x) \div 100,
             (vehicle.position.y - c.position.y) \div 100, Px(25))

\* gameLoop, the vehicles from the i-th on: each moves, and one that touches
\* a player that is not stunned stuns it
RECURSIVE collideVehicles(_, _)
collideVehicles(c, i) ==
    IF i > Len(c.vehicles) THEN c
    ELSE LET vehicle == updateVehiclePosition(c.vehicles[i])
             c1 == [c EXCEPT !.vehicles[i] = vehicle]
         IN  collideVehicles(
                 IF VehicleTouches(c1, vehicle) /\ c1.stunned <= 0
                 THEN [c1 EXCEPT !.playerPreviousRotation = c1.rotation,
                                 !.stunned = STUN_DURATION,
                                 !.isCharging = FALSE,
                                 !.chargePower = 0]
                 ELSE c1,
                 i + 1)

\* gameLoop, the recovery after a collision
collisionRecovery(c) ==
    IF c.collisionRecoveryTimer > 0
    THEN [c EXCEPT !.collisionRecoveryTimer = @ - 1,
                   !.currentSpeed = Min(PLAYER_SPEED_NORMAL,
                                        @ + PLAYER_SPEED_NORMAL \div 30)]
    ELSE c

\* gameLoop, the second spin block
secondSpin(c) == IF c.spinCount > 0 THEN spinStep(c) ELSE c

\* the player's part of one run of gameLoop
playerTick(c, keys) ==
    secondSpin(collisionRecovery(collideVehicles(collideBuildings(
        movePlayer(updateStun(updateCharge(speedEnvelope(
            turnFriction(updateBrake(c), keys), keys))), keys)), 1)))

\* the keys the player uses, and where the pointer is, off the player, when
\* the button is let go: to the east, and on the player itself
ControlKeys == {" ", "a", "shift", "control"}

MouseAims == { Vec(Fine(100), 0), Vec(0, 0) }

\* situations of a running match the player drives into: on the spot where
\* initGame puts it; there with every pizza thrown and the last one still
\* sliding; three ticks short of the west face of a building; and with a car
\* coming up from behind, three ticks away
AtStart == InitialController

EmptyHanded ==
    [InitialController EXCEPT
        !.pizzasRemaining = 0,
        !.pizzas = << [ position  |-> Vec(Fine(700), Fine(400)),
                        velocity  |-> Vec(Fine(1), 0),
                        active    |-> TRUE,
                        delivered |-> FALSE,
                        sliding   |-> TRUE ] >>]

ByBuilding == [InitialController EXCEPT !.position = Vec(Fine(38), Fine(100))]

InTraffic ==
    [InitialController EXCEPT
        !.vehicles = << [ position |-> Vec(Fine(572), Fine(400)),
                          speed    |-> Fine(2),
                          size     |-> Vec(Fine(25), Fine(15)) ] >>]

ControlStarts == { AtStart, EmptyHanded, ByBuilding, InTraffic }

MayInput == played.events < MaxKeyEvents /\ played.ticks < InputTicks

ControlKeyDown(key) ==
    /\ MayInput
    /\ controller' = handleKeyDown(controller, key)
    /\ keysRef' = keysRef \cup {key}
    /\ played' = [played EXCEPT !.events = @ + 1]
    /\ UNCHANGED << serverVars, netVars, soloVars, genVars, apiVars >>

ControlKeyUp(key) ==
    /\ MayInput
    /\ controller' = handleKeyUp(controller, key)
    /\ keysRef' = keysRef \ {key}
    /\ played' = [played EXCEPT !.events = @ + 1]
    /\ UNCHANGED << serverVars, netVars, soloVars, genVars, apiVars >>

ControlMouseDown ==
    /\ MayInput
    /\ controller' = handleMouseDown(controller)
    /\ played' = [played EXCEPT !.events = @ + 1]
    /\ UNCHANGED << serverVars, netVars, soloVars, genVars, apiVars, keysRef >>

ControlMouseUp ==
    /\ MayInput
    /\ \E aim \in MouseAims : controller' = handleMouseUp(controller, aim)
    /\ played' = [played EXCEPT !.events = @ + 1]
    /\ UNCHANGED << serverVars, netVars, soloVars, genVars, apiVars, keysRef >>

\* requestAnimationFrame runs gameLoop
ControlTick ==
    /\ played.ticks < MaxPlayerTicks
    /\ controller' = playerTick(controller, keysRef)
    /\ played' = [played EXCEPT !.ticks = @ + 1]
    /\ UNCHANGED << serverVars, netVars, soloVars, genVars, apiVars, keysRef >>

ControlInit ==
    /\ controller = InitialController
    /\ keysRef = {}
    /\ played = [ticks |-> 0, events |-> 0]

(***************************************************************************)
(* The world generators called on their own (src/utils/generators.ts and   *)
(* their copies in src/pizza-delivery-game.tsx).  A call is one step: its  *)
(* arguments and Math.random() draws are chosen, its result is recorded.   *)
(***************************************************************************)
NoCall == [op |-> "none"]

GenBecomes(call) ==
    /\ generated' = call
    /\ UNCHANGED << serverVars, netVars, soloVars, controlVars, apiVars >>

\* a Building of type "decoration", which the Building interface allows
Decoration(x, y, w, h) == [Rect(x, y, w, h) EXCEPT !.type = "decoration"]

\* the obstacle lists isOnStreet is asked about: none, one building, two
\* buildings sharing an edge, a building beside a decoration, and the
\* first blocks of a generated city
StreetLayouts ==
    { << >>,
      << Rect(Px(50), Px(50), Px(100), Px(100)) >>,
      << Rect(Px(50), Px(50), Px(100), Px(100)),
         Rect(Px(150), Px(50), Px(60), Px(100)) >>,
      << Decoration(Px(50), Px(50), Px(100), Px(100)),
         Rect(Px(250), Px(50), Px(100), Px(100)) >>,
      generateCity([k \in 1..CityBlocks |-> (k % 3) + 1]) }

\* the coordinates of the query points, in pixels
QueryCoords == {0, 30, 40, 50, 100, 150, 160, 170, 230}

\* the sizes the callers pass: a route hop, a delivery point, a truck, a car
QuerySizes == { Vec(Px(40), Px(40)), Vec(Px(80), Px(80)),
                Vec(Px(40), Px(20)), Vec(Px(25), Px(15)) }

\* each step below is the one call made of a module that has made none yet
GenIsOnStreet ==
    /\ generated = NoCall
    /\ \E blds \in StreetLayouts, x \in QueryCoords, y \in QueryCoords, size \in QuerySizes :
        GenBecomes([op |-> "isOnStreet", blds |-> blds,
                    x |-> Px(x), y |-> Px(y), size |-> size,
                    result |-> isOnStreet(Px(x), Px(y), size, blds)])

\* iterations of the loop of generateVehicleRoute followed before the call
\* is given up as one that has not returned
MaxRouteIterations == 12

\* the iterations the loop of generateVehicleRoute makes until it leaves, or
\* -1 when it is still running after MaxRouteIterations of them: the loop
\* counter steps back on every rejected hop
RECURSIVE RouteIterations(_, _, _, _, _, _)
RouteIterations(i, k, cur, dir, steps, blds) ==
    IF i >= 4 THEN k - 1
    ELSE IF k > MaxRouteIterations THEN -1
    ELSE LET step == IF k <= Len(steps) THEN steps[k] ELSE "straight"
             d    == TurnedDirection(dir, step)
             next == Vec(cur.x + d.x * Px(BLOCK_SIZE), cur.y + d.y * Px(BLOCK_SIZE))
         IN  IF HopAccepted(next, blds)
             THEN RouteIterations(i + 1, k + 1, next, d, steps, blds)
             ELSE RouteIterations(i, k + 1, cur, Vec(-d.x, -d.y), steps, blds)

RouteReturns(startPos, blds, rnd) ==
    RouteIterations(1, 1, findNearestIntersection(startPos.x, startPos.y),
                    rnd.dir, rnd.steps, blds) >= 0

\* a city: the blocks generateCity builds, one of each kind in turn
GenCity == generateCity([k \in 1..CityBlocks |-> (k % 3) + 1])

\* a layout no generateCity builds: a building over the crossing (400, 400)
CrossingBuilt == << Rect(Px(380), Px(380), Px(40), Px(40)) >>

RouteLayouts == { GenCity, CrossingBuilt }

\* where generateVehicles has put the vehicle: by the north-west corner, by
\* the east edge, by the south edge, beside the crossing (400, 400), and in
\* the middle of the city
RouteStarts ==
    { Vec(Px(210), 0), Vec(Px(2390), Px(790)), Vec(Px(10), Px(1590)),
      Vec(Px(290), Px(410)), Vec(Px(410), Px(430)), Vec(Px(1200), Px(800)) }

RouteSteps == {"straight", "turnPlus", "turnMinus"}

\* the draws of one generateVehicleRoute: the first direction and the
\* "shouldTurn" draws of the first iterations
RouteDraws ==
    { [dir |-> d, steps |-> st] :
        d \in {Vec(1, 0), Vec(0, 1)},
        st \in {<< >>} \cup { << a >> : a \in RouteSteps }
                       \cup { << a, b >> : a \in RouteSteps, b \in RouteSteps }
                       \cup { << a, b, a >> : a \in RouteSteps, b \in RouteSteps } }

GenVehicleRoute ==
    /\ generated = NoCall
    /\ \E blds \in RouteLayouts, startPos \in RouteStarts, rnd \in RouteDraws :
        /\ isOnStreet(startPos.x, startPos.y, VehicleSize(FALSE), blds)
        /\ RouteReturns(startPos, blds, rnd)
        /\ GenBecomes([op |-> "generateVehicleRoute", blds |-> blds,
                       startPos |-> startPos, rnd |-> rnd,
                       result |-> generateVehicleRoute(startPos, blds, rnd)])

\* generateVehicleRoute of the game component (pizza-delivery-game.tsx)
NUM_POINTS == 12

\* the component's test of a hop: a street's width inside the city, on a street
Game_HopAccepted(pos, blds) ==
    /\ pos.x >= Px(STREET_WIDTH) /\ pos.x <= Px(CITY_WIDTH - STREET_WIDTH)
    /\ pos.y >= Px(STREET_WIDTH) /\ pos.y <= Px(CITY_HEIGHT - STREET_WIDTH)
    /\ isOnStreet(pos.x, pos.y, Vec(Px(40), Px(40)), blds)

\* a turn swaps the axes and multiplies by the drawn sign
Game_TurnedDirection(dir, step) ==
    IF step = "straight" THEN dir
    ELSE LET sgn == IF step = "turnPlus" THEN 1 ELSE -1
         IN  Vec(dir.y * sgn, dir.x * sgn)

\* the inner loop: up to n hops in one direction while i < NUM_POINTS; a
\* rejected hop reverses the direction and ends the stretch
RECURSIVE Game_Stretch(_, _, _, _)
Game_Stretch(j, n, r, blds) ==
    IF j >= n \/ r.i >= NUM_POINTS THEN r
    ELSE LET nextPos == Vec(r.cur.x + r.dir.x * Px(BLOCK_SIZE),
                            r.cur.y + r.dir.y * Px(BLOCK_SIZE))
         IN  IF Game_HopAccepted(nextPos, blds)
             THEN Game_Stretch(j + 1, n,
                      [r EXCEPT !.points = Append(@, nextPos), !.cur = nextPos,
                                !.i = @ + 1, !.rejected = FALSE], blds)
             ELSE [r EXCEPT !.dir = Vec(-r.dir.x, -r.dir.y), !.rejected = TRUE]

\* the outer loop: draws[k] holds the "shouldTurn" draw and the number of
\* intermediate points of iteration k ("straight" and 1 once the listed draws
\* are used up); after seven straight stretches the turn is certain
RECURSIVE Game_RouteFrom(_, _, _, _)
Game_RouteFrom(k, r, draws, blds) ==
    IF r.i >= NUM_POINTS THEN r
    ELSE LET draw == IF k <= Len(draws) THEN draws[k] ELSE [turn |-> "straight", hops |-> 1]
             step == IF draw.turn = "straight" /\ r.straightCount >= 7
                     THEN "turnPlus" ELSE draw.turn
             r1   == [r EXCEPT !.dir = Game_TurnedDirection(@, step),
                               !.straightCount = IF step = "straight" THEN @ + 1 ELSE 0]
             r2   == Game_Stretch(0, draw.hops, r1, blds)
         IN  Game_RouteFrom(k + 1, [r2 EXCEPT !.i = @ + 1], draws, blds)

\* the loop that brings the route to 3 points: diag[k] is the k-th pair of
\* signs drawn; the loop is still running when the listed draws are used up
\* with fewer than 3 points
RECURSIVE Game_MinPoints(_, _, _, _)
Game_MinPoints(points, k, diag, blds) ==
    IF Len(points) >= 3 THEN [points |-> points, returned |-> TRUE, draws |-> k - 1]
    ELSE IF k > Len(diag) THEN [points |-> points, returned |-> FALSE, draws |-> k - 1]
    ELSE LET lastPoint == points[Len(points)]
             newPoint  == Vec(lastPoint.x + Px(BLOCK_SIZE) * diag[k].x,
                              lastPoint.y + Px(BLOCK_SIZE) * diag[k].y)
         IN  Game_MinPoints(IF Game_HopAccepted(newPoint, blds)
                            THEN Append(points, newPoint) ELSE points,
                            k + 1, diag, blds)

\* rnd.dir is the first direction drawn, rnd.draws the draws of the hops,
\* rnd.diag those of the last loop
Game_generateVehicleRoute(startPos, blds, rnd) ==
    LET start == findNearestIntersection(startPos.x, startPos.y)
        r     == Game_RouteFrom(1, [i |-> 1, cur |-> start, dir |-> rnd.dir,
                                    straightCount |-> 0, points |-> << start >>,
                                    rejected |-> FALSE], rnd.draws, blds)
        m     == Game_MinPoints(r.points, 1, rnd.diag, blds)
        first == m.points[1]
        last  == m.points[Len(m.points)]
    IN  [points |-> m.points,
         currentPointIndex |-> 0,
         isLooping |-> DistLeq((last.x - first.x) \div 100, (last.y - first.y) \div 100,
                               BLOCK_SIZE * 3),
         returned |-> m.returned,
         stretchRejected |-> r.rejected,
         minDraws |-> m.draws]

Game_RouteTurns == { [turn |-> t, hops |-> n] : t \in RouteSteps, n \in {1, 2} }

Diagonals == { Vec(1, 1), Vec(-1, -1), Vec(1, -1) }

\* the draws of one call: the first direction, the draws of the first
\* iterations, and the signs drawn by the last loop
Game_RouteDraws ==
    { [dir |-> d, draws |-> dr, diag |-> dg] :
        d  \in {Vec(1, 0), Vec(0, 1)},
        dr \in {<< >>} \cup { << a >> : a \in Game_RouteTurns }
                       \cup { << a, [turn |-> "turnMinus", hops |-> 2] >> : a \in Game_RouteTurns },
        dg \in { << a, a, b >> : a \in Diagonals, b \in {Vec(1, 1)} } }

\* a call that has returned
Game_GenVehicleRoute ==
    /\ generated = NoCall
    /\ \E blds \in RouteLayouts, startPos \in RouteStarts, rnd \in Game_RouteDraws :
        LET route == Game_generateVehicleRoute(startPos, blds, rnd)
        IN  /\ isOnStreet(startPos.x, startPos.y, VehicleSize(FALSE), blds)
            /\ route.returned
            /\ GenBecomes([op |-> "Game_generateVehicleRoute", blds |-> blds,
                           startPos |-> startPos, rnd |-> rnd, result |-> route])

\* the attempts generateDeliveryPoints of the server makes at most
PLACEMENT_ATTEMPTS == 100

\* the points drawn by the attempts of one generateDeliveryPoints, each in
\* [100, CITY_WIDTH - 100) x [100, CITY_HEIGHT - 100): ten crossings two
\* blocks apart, drawn over and over; points 50 pixels apart along a street;
\* one point drawn every time; a point inside a building drawn every time;
\* and the ten crossings after three draws inside a building
PointDraws ==
    LET Crossing(k) == Vec(Px(300 + 400 * ((k - 1) % 5)),
                           Px(500 + 400 * (((k - 1) \div 5) % 2)))
    IN  { [k \in 1..PLACEMENT_ATTEMPTS |-> Crossing(k)],
          [k \in 1..PLACEMENT_ATTEMPTS |-> Vec(Px(300 + 50 * (k % 40)), Px(500))],
          [k \in 1..PLACEMENT_ATTEMPTS |-> Vec(Px(300), Px(500))],
          [k \in 1..PLACEMENT_ATTEMPTS |-> PointInBuilding],
          [k \in 1..PLACEMENT_ATTEMPTS |-> IF k <= 3 THEN PointInBuilding ELSE Crossing(k)] }

GenDeliveryPoints ==
    /\ generated = NoCall
    /\ \E draws \in PointDraws :
           GenBecomes([op |-> "generateDeliveryPoints", blds |-> GenCity, draws |-> draws,
                       result |-> generateDeliveryPoints(GenCity, draws)])

\* the loop of the server's generateVehicleRoute, whether it leaves or not:
\* iterations is -1 when it is still running after MaxRouteIterations
GenRouteLoop ==
    /\ generated = NoCall
    /\ \E startPos \in RouteStarts, rnd \in RouteDraws :
           GenBecomes([op |-> "generateVehicleRoute loop", blds |-> GenCity,
                       startPos |-> startPos, rnd |-> rnd,
                       iterations |->
                           RouteIterations(1, 1,
                               findNearestIntersection(startPos.x, startPos.y),
                               rnd.dir, rnd.steps, GenCity)])

\* signs the minimum-points loop of the component's route may draw: towards
\* the inside of the city or away from it, every time
DiagonalRuns ==
    { [k \in 1..n |-> d] : n \in 1..MaxRouteIterations, d \in {Vec(1, 1), Vec(-1, -1)} }

\* the component's generateVehicleRoute up to the end of the listed draws of
\* its minimum-points loop, whether it has returned or not
Game_GenRouteLoop ==
    /\ generated = NoCall
    /\ \E startPos \in RouteStarts, d \in {Vec(1, 0), Vec(0, 1)}, dg \in DiagonalRuns :
           LET rnd == [dir |-> d, draws |-> << >>, diag |-> dg]
               route == Game_generateVehicleRoute(startPos, GenCity, rnd)
           IN  GenBecomes([op |-> "Game_generateVehicleRoute loop", blds |-> GenCity,
                           startPos |-> startPos, rnd |-> rnd,
                           returned |-> route.returned, minDraws |-> route.minDraws])

\* attempts of one call of the component's generateDeliveryPoints (the code's 200)
MaxGameAttempts == 40

\* the component's generateDeliveryPoints: rounds[n] holds the points drawn by
\* the n-th call; a call left with fewer than REQUIRED_DELIVERIES points calls
\* itself again, and is still doing so when the listed rounds are used up
RECURSIVE Game_generateDeliveryPoints(_, _, _)
Game_generateDeliveryPoints(blds, rounds, n) ==
    LET points == SoloPointsFrom(blds, rounds[n], 0, << >>)
    IN  IF Len(points) >= REQUIRED_DELIVERIES
        THEN [points |-> points, returned |-> TRUE, calls |-> n]
        ELSE IF n >= Len(rounds)
        THEN [points |-> points, returned |-> FALSE, calls |-> n]
        ELSE Game_generateDeliveryPoints(blds, rounds, n + 1)

\* calls of generateDeliveryPoints followed before giving up on its return
MaxPlacementCalls == 3

\* the points drawn by one call of the component's placement, each in
\* [100, CITY_WIDTH - 100) x [100, CITY_HEIGHT - 100): ten crossings two
\* blocks apart drawn over and over, points 50 pixels apart along one
\* street, or a point inside a building every time
Game_PointDraws ==
    { [k \in 1..MaxGameAttempts |->
           Vec(Px(300 + 400 * ((k - 1) % 5)), Px(500 + 400 * (((k - 1) \div 5) % 2)))],
      [k \in 1..MaxGameAttempts |-> Vec(Px(300 + 50 * (k % 40)), Px(500))],
      [k \in 1..MaxGameAttempts |-> PointInBuilding] }

Game_GenDeliveryPoints ==
    /\ generated = NoCall
    /\ \E n \in 1..MaxPlacementCalls :
         \E rounds \in [1..n -> Game_PointDraws] :
           GenBecomes([op |-> "Game_generateDeliveryPoints", blds |-> GenCity,
                       rounds |-> rounds,
                       result |-> Game_generateDeliveryPoints(GenCity, rounds, 1)])

\* the collisions of a pizza in one tick of the match server and of the game
\* component.  The scenes: the obstacles a pizza flies among,
PizzaCities == { << Rect(Px(50), Px(50), Px(100), Px(100)) >>, GenCity }

\* the vehicles about: none, a truck that generateVehicles has put along the
\* north wall of the building at (50, 50), and the truck with a car behind it
PizzaTraffic ==
    LET truck == [position |-> Vec(Px(100), Px(40)), size |-> Vec(Px(40), Px(20))]
        car   == [position |-> Vec(Px(110), Px(42)), size |-> Vec(Px(25), Px(15))]
    IN  { << >>, << truck >>, << truck, car >> }

\* where the pizza is before it moves, and how fast it flies
PizzaPositions ==
    { Vec(Px(100), Px(47)), Vec(Px(100), Px(20)), Vec(Px(60), Px(287)),
      Vec(Px(300), Px(300)), Vec(Px(100), Px(100)) }

PizzaVelocities ==
    { Vec(0, Px(5)), Vec(0, -Px(5)), Vec(Px(3), Px(4)), Vec(Px(5), 0), Vec(0, 0) }

FlyingPizza(pos, vel) ==
    [ position |-> pos, velocity |-> vel, active |-> TRUE, delivered |-> FALSE,
      sliding |-> TRUE, playerId |-> "s1" ]

\* the part of updatePizzas that moves one pizza and bounces it
GenMovedPizza ==
    /\ generated = NoCall
    /\ \E blds \in PizzaCities, vehs \in PizzaTraffic,
          pos \in PizzaPositions, vel \in PizzaVelocities :
        LET pizza == FlyingPizza(pos, vel)
            world == [gameState |-> [buildings |-> blds, vehicles |-> vehs]]
        IN  GenBecomes([op |-> "updatePizzas", pizza |-> pizza,
                        blds |-> blds, vehicles |-> vehs,
                        moved |-> MovedPizza(world, pizza)])

PIZZA_RADIUS == 8

\* checkPizzaRectCollision: the nearest point of the rectangle is less than
\* the pizza's radius away
Game_checkPizzaRectCollision(pizza, x, y, width, height) ==
    LET closestX == Max(x, Min(pizza.position.x, x + width))
        closestY == Max(y, Min(pizza.position.y, y + height))
    IN  DistLess(pizza.position.x - closestX, pizza.position.y - closestY,
                 Px(PIZZA_RADIUS))

\* calculatePizzaBounce: v - 2 (v . n) n for the normalised normal n, times
\* 0.7; the division by the length is made once, by its square, and a normal
\* of a pixel or more is taken in whole pixels
Game_calculatePizzaBounce(pizza, normalX, normalY) ==
    IF normalX = 0 /\ normalY = 0 THEN pizza
    ELSE LET unit == IF Abs(normalX) < 100 /\ Abs(normalY) < 100 THEN 1 ELSE 100
             nx == Scale(normalX, 1, unit)
             ny == Scale(normalY, 1, unit)
             dotProduct == pizza.velocity.x * nx + pizza.velocity.y * ny
             len2 == nx * nx + ny * ny
         IN  [pizza EXCEPT !.velocity =
                Vec(Scale(pizza.velocity.x - Scale(2 * dotProduct * nx, 1, len2), 7, 10),
                    Scale(pizza.velocity.y - Scale(2 * dotProduct * ny, 1, len2), 7, 10))]

\* the index of the first building the pizza collides with, 0 when none
Game_FirstBuildingHit(pizza, blds) ==
    LET hit(i) == /\ blds[i].type = "building"
                  /\ Game_checkPizzaRectCollision(pizza, blds[i].x, blds[i].y,
                                                  blds[i].width, blds[i].height)
    IN  IF \E i \in 1..Len(blds) : hit(i)
        THEN CHOOSE i \in 1..Len(blds) : hit(i) /\ \A j \in 1..(i - 1) : ~hit(j)
        ELSE 0

\* the index of the first vehicle within reach of the pizza, 0 when none
Game_FirstVehicleHit(pizza, vehs) ==
    LET hit(i) == DistLess(pizza.position.x - vehs[i].position.x,
                           pizza.position.y - vehs[i].position.y,
                           vehs[i].size.x \div 2 + Px(PIZZA_RADIUS))
    IN  IF \E i \in 1..Len(vehs) : hit(i)
        THEN CHOOSE i \in 1..Len(vehs) : hit(i) /\ \A j \in 1..(i - 1) : ~hit(j)
        ELSE 0

\* gameLoop's friction and collisions of a pizza it has moved: the vehicles
\* are looked at only when no building was hit (hasCollided)
Game_PizzaCollisions(pizza, blds, vehs) ==
    LET p == [pizza EXCEPT !.velocity = Vec(Scale(@.x, 98, 100), Scale(@.y, 98, 100))]
        b == Game_FirstBuildingHit(p, blds)
        v == Game_FirstVehicleHit(p, vehs)
    IN  IF b > 0
        THEN Game_calculatePizzaBounce(p,
                 p.position.x - (blds[b].x + blds[b].width \div 2),
                 p.position.y - (blds[b].y + blds[b].height \div 2))
        ELSE IF v > 0
        THEN Game_calculatePizzaBounce(p, p.position.x - vehs[v].position.x,
                                          p.position.y - vehs[v].position.y)
        ELSE p

Game_GenMovedPizza ==
    /\ generated = NoCall
    /\ \E blds \in PizzaCities, vehs \in PizzaTraffic,
          pos \in PizzaPositions, vel \in PizzaVelocities :
        LET pizza == FlyingPizza(pos, vel)
            flown == [pizza EXCEPT !.position = Vec(pos.x + vel.x, pos.y + vel.y)]
        IN  GenBecomes([op |-> "gameLoop", pizza |-> pizza,
                        blds |-> blds, vehicles |-> vehs,
                        moved |-> Game_PizzaCollisions(flown, blds, vehs)])

GenInit == generated = NoCall

(***************************************************************************)
(* The collect-point route (src/app/api/collect-point/route.ts).  Lengths  *)
(* are whole pixels here.  Every await of POST is a step of its own: the   *)
(* database runs the query, and the handler runs on to its next query or   *)
(* to its response.  Two requests are in the server at once.               *)
(***************************************************************************)
Posts == { "r1", "r2" }

maxCollectionDistance == 40

\* the rows of "players" and of "game_points" when the requests come in
PlayerRows ==
    [ id \in {"p1", "p2"} |->
        IF id = "p1" THEN [id |-> "p1", x |-> 100, y |-> 110, score |-> 0]
        ELSE [id |-> "p2", x |-> 120, y |-> 100, score |-> 5] ]

PointRows ==
    [ id \in {1, 2} |->
        IF id = 1
        THEN [id |-> 1, x |-> 100, y |-> 100, value |-> 10,
              collected |-> FALSE, collected_by |-> ""]
        ELSE [id |-> 2, x |-> 500, y |-> 500, value |-> 5,
              collected |-> FALSE, collected_by |-> ""] ]

\* the JSON bodies sent: "" is a body without playerId, "p9" a player that
\* has no row
PostBodies ==
    { [playerId |-> p, pointX |-> pt.x, pointY |-> pt.y] :
        p \in {"p1", "p2", "p9", ""}, pt \in { Vec(100, 100), Vec(500, 500) } }

NoRow == [id |-> "none"]

NoResponse == [status |-> 0, success |-> FALSE]

Respond(post, status) ==
    [post EXCEPT !.pc = "done",
                 !.response = [status |-> status, success |-> status = 200]]

\* the request comes in: a body without playerId is answered at once
Post(r) ==
    /\ posts[r].pc = "idle"
    /\ \E body \in PostBodies :
         posts' = [posts EXCEPT ![r] =
                     IF body.playerId = ""
                     THEN Respond([@ EXCEPT !.body = body], 400)
                     ELSE [@ EXCEPT !.body = body, !.pc = "selectPlayer"]]
    /\ UNCHANGED << dbPlayers, dbGamePoints >>
    /\ UNCHANGED << serverVars, netVars, soloVars, controlVars, genVars >>

\* select from players by id, single(); then the distance test
SelectPlayer(r) ==
    /\ posts[r].pc = "selectPlayer"
    /\ LET body == posts[r].body
       IN  posts' = [posts EXCEPT ![r] =
               IF body.playerId \notin DOMAIN dbPlayers THEN Respond(@, 404)
               ELSE LET player == dbPlayers[body.playerId]
                    IN  IF ~DistLeq(player.x - body.pointX, player.y - body.pointY,
                                    maxCollectionDistance)
                        THEN Respond(@, 400)
                        ELSE [@ EXCEPT !.player = player, !.pc = "selectPoint"]]
    /\ UNCHANGED << dbPlayers, dbGamePoints >>
    /\ UNCHANGED << serverVars, netVars, soloVars, controlVars, genVars >>

\* select from game_points by x, y and collected = false, single(): an error
\* unless exactly one row matches
SelectPoint(r) ==
    /\ posts[r].pc = "selectPoint"
    /\ LET body == posts[r].body
           rows == { id \in DOMAIN dbGamePoints :
                       /\ dbGamePoints[id].x = body.pointX
                       /\ dbGamePoints[id].y = body.pointY
                       /\ ~dbGamePoints[id].collected }
       IN  posts' = [posts EXCEPT ![r] =
               IF Cardinality(rows) # 1 THEN Respond(@, 404)
               ELSE [@ EXCEPT !.existingPoint = dbGamePoints[CHOOSE id \in rows : TRUE],
                              !.pc = "updatePoint"]]
    /\ UNCHANGED << dbPlayers, dbGamePoints >>
    /\ UNCHANGED << serverVars, netVars, soloVars, controlVars, genVars >>

\* update game_points by id: the row is marked collected by the player, or
\* the database reports an error
UpdatePoint(r) ==
    /\ posts[r].pc = "updatePoint"
    /\ \E updateError \in BOOLEAN :
         IF updateError
         THEN /\ posts' = [posts EXCEPT ![r] = Respond(@, 500)]
              /\ UNCHANGED dbGamePoints
         ELSE /\ dbGamePoints' =
                   [dbGamePoints EXCEPT ![posts[r].existingPoint.id] =
                      [@ EXCEPT !.collected = TRUE,
                                !.collected_by = posts[r].body.playerId]]
              /\ posts' = [posts EXCEPT ![r].pc = "updateScore"]
    /\ UNCHANGED dbPlayers
    /\ UNCHANGED << serverVars, netVars, soloVars, controlVars, genVars >>

\* update players by id with the score read at the start plus the value of
\* the point; an error is logged, and the response is the same
UpdateScore(r) ==
    /\ posts[r].pc = "updateScore"
    /\ \E scoreError \in BOOLEAN :
         dbPlayers' =
             IF scoreError THEN dbPlayers
             ELSE [dbPlayers EXCEPT ![posts[r].body.playerId].score =
                      posts[r].player.score + posts[r].existingPoint.value]
    /\ posts' = [posts EXCEPT ![r] = Respond(@, 200)]
    /\ UNCHANGED dbGamePoints
    /\ UNCHANGED << serverVars, netVars, soloVars, controlVars, genVars >>

ApiInit ==
    /\ dbPlayers = PlayerRows
    /\ dbGamePoints = PointRows
    /\ posts = [r \in Posts |->
                  [pc |-> "idle", body |-> [playerId |-> "", pointX |-> 0, pointY |-> 0],
                   player |-> NoRow, existingPoint |-> NoRow,
                   response |-> NoResponse]]

(***************************************************************************)
(* The specifications                                                      *)
(***************************************************************************)
vars == << serverVars, netVars, soloVars, controlVars, genVars, apiVars >>

Init == ServerInit /\ NetInit /\ SoloInit /\ ControlInit /\ GenInit /\ ApiInit

\* the match: connections, ready, reset, throws and the two timers
Next ==
    \/ \E id \in Conns : Connect(id)
    \/ \E id \in Conns : ReadyToStart(id)
    \/ \E id \in Conns : GameReset(id)
    \/ \E id \in Conns : Disconnect(id)
    \/ \E id \in Conns : ThrowPizza(id)
    \/ GameLoopTick
    \/ VehicleTick

Spec == Init /\ [][Next]_vars

\* setInterval runs the callback again every period until it is cleared:
\* weak fairness of the ticks of a running match, WF_vars(A) for the action
\* A == Running /\ GameLoopTick, whose ENABLED is written out as the state
\* predicate it amounts to (the match runs and a 60 Hz interval is alive)
IntervalKeepsFiring ==
    \/ []<>~(gameState.gameStarted /\ ~gameState.gameOver /\ intervals.loop > 0)
    \/ []<><<gameState.gameStarted /\ ~gameState.gameOver /\ GameLoopTick>>_vars

\* the match with a 60 Hz interval that keeps firing while it is alive
SpecClock == Init /\ [][Next]_vars /\ IntervalKeepsFiring

\* the relay of player state between the connections of a room
RelayNext ==
    \/ \E id \in Conns : Connect(id)
    \/ \E id \in Conns : GameReset(id)
    \/ \E id \in Conns : Disconnect(id)
    \/ \E id \in Conns : PlayerUpdate(id)
    \/ \E id \in Conns : PlayerCharge(id)
    \/ \E id \in Conns : PlayerBrake(id)
    \/ \E id \in Conns : SetPlayerName(id)
    \/ \E id \in Conns : Ping(id)

SpecRelay == Init /\ [][RelayNext]_vars

\* the lobby: joins, moves, closes and the delivery of events
NetNext ==
    \/ \E id \in NetConns : NetConnect(id)
    \/ \E id \in NetConns : NetMove(id)
    \/ \E id \in NetConns : NetClose(id)
    \/ \E id \in NetConns : NetDisconnect(id)
    \/ \E id \in NetConns : NetDeliver(id)

SpecNet == Init /\ [][NetNext]_vars

\* the component's match
SoloNext ==
    \/ SoloInitGame
    \/ SoloKeyDown
    \/ SoloKeyUp
    \/ SoloTick

SpecSolo == Init /\ [][SoloNext]_vars

\* the component's match with throws across the delivery point
SoloCrossNext ==
    \/ SoloInitGame
    \/ SoloKeyDown
    \/ SoloKeyUpAcross
    \/ SoloTick

SpecSoloCross == Init /\ [][SoloCrossNext]_vars

\* the player controller, from the situations of ControlStarts
ControlStart ==
    /\ ServerInit /\ NetInit /\ SoloInit /\ GenInit /\ ApiInit
    /\ controller \in ControlStarts
    /\ keysRef = {}
    /\ played = [ticks |-> 0, events |-> 0]

ControlNext ==
    \/ \E key \in ControlKeys : ControlKeyDown(key)
    \/ \E key \in ControlKeys : ControlKeyUp(key)
    \/ ControlMouseDown
    \/ ControlMouseUp
    \/ ControlTick

SpecControl == ControlStart /\ [][ControlNext]_vars

\* updates whose position lies outside the city
OutsideUpdates ==
    { [u EXCEPT !.position = p] :
        u \in UpdateInputs,
        p \in { Vec(Px(-50), Px(CITY_HEIGHT + 400)), Vec(Px(CITY_WIDTH + 1), Px(100)),
                Vec(Px(100), -1), Vec(-1, -1), Vec(Px(CITY_WIDTH), Px(CITY_HEIGHT) + 1) } }

PlayerUpdateOutside(id) ==
    /\ id \in sockets
    /\ \E data \in OutsideUpdates : Becomes(handlePlayerUpdate(Server, id, data))

\* the positions the match server stores: joins, updates and leaves
UpdateNext ==
    \/ \E id \in Conns : Connect(id)
    \/ \E id \in Conns : Disconnect(id)
    \/ \E id \in Conns : PlayerUpdate(id)
    \/ \E id \in Conns : PlayerUpdateOutside(id)

SpecUpdate == Init /\ [][UpdateNext]_vars

\* the generators: one call of one of them
GenNext ==
    \/ GenIsOnStreet
    \/ GenVehicleRoute
    \/ Game_GenVehicleRoute
    \/ GenDeliveryPoints
    \/ GenRouteLoop
    \/ Game_GenRouteLoop
    \/ Game_GenDeliveryPoints
    \/ GenMovedPizza
    \/ Game_GenMovedPizza

SpecGen == Init /\ [][GenNext]_vars

\* the collect-point route with two requests in the server
ApiNext ==
    \/ \E r \in Posts : Post(r)
    \/ \E r \in Posts : SelectPlayer(r)
    \/ \E r \in Posts : SelectPoint(r)
    \/ \E r \in Posts : UpdatePoint(r)
    \/ \E r \in Posts : UpdateScore(r)

SpecApi == Init /\ [][ApiNext]_vars

(***************************************************************************)
(* Properties of the match server                                          *)
(***************************************************************************)
\* the events of the given kind the last handler emitted
Emitted(ev) == { k \in 1..Len(out) : out[k].ev = ev }

\* what a room is besides its connections and its last emissions
Room(s) ==
    [ gameState             |-> s.gameState,
      readyPlayers          |-> s.readyPlayers,
      gameLoopInterval      |-> s.gameLoopInterval,
      vehicleUpdateInterval |-> s.vehicleUpdateInterval,
      intervals             |-> s.intervals ]

\* C1: gameStarted turns true only in a step that handles a ready intent
\* (it emits game_start) and only when every player of the room is in the
\* set of the players that sent ready since the last reset.
C1_StartedOnlyWhenAllReady ==
    [][ (~gameState.gameStarted /\ gameState'.gameStarted) =>
            /\ Emitted("game_start")' # {}
            /\ DOMAIN gameState'.players \subseteq readyPlayers' ]_vars

\* C2: while gameOver holds both timers are stopped, and a step leaves
\* gameOver only by handling a reset (it emits game_reset).
C2_OverIsTerminal ==
    [][ gameState.gameOver =>
            /\ intervals.loop = 0 /\ intervals.vehicle = 0
            /\ gameState'.gameOver \/ Emitted("game_reset")' # {} ]_vars

ActiveTargets(points) == { i \in 1..Len(points) : points[i].active }

\* the delivery points with exactly point i active; none for i outside them
OnlyActive(points, i) == [k \in 1..Len(points) |-> [points[k] EXCEPT !.active = (k = i)]]

\* C4: in a started match at most one delivery point is active; a match
\* starts with the first point active; a tick that resolves n deliveries
\* moves the active point from i to i + n, to none past the last point;
\* any other step of a started match leaves the points alone.
C4_OneActiveTargetInOrder ==
    [][ LET p == gameState.deliveryPoints
            q == gameState'.deliveryPoints
            i == ActivePointIndex(p)
            n == Cardinality(Emitted("delivery_complete")')
        IN  gameState'.gameStarted =>
              /\ Cardinality(ActiveTargets(q)) <= 1
              /\ Emitted("game_start")' # {} => q = OnlyActive(q, 1)
              /\ n > 0 => i > 0 /\ q = OnlyActive(p, i + n)
              /\ (gameState.gameStarted /\ n = 0 /\ Emitted("game_start")' = {})
                     => q = p ]_vars

\* a delivery has moved the active point of a started match to the second
C4_SecondTargetActive ==
    /\ gameState.gameStarted
    /\ Emitted("delivery_complete") # {}
    /\ ActiveTargets(gameState.deliveryPoints) = {2}

\* C5: the player map holds an entity for exactly the connected sockets.
C5_PlayersAreConnections == DOMAIN gameState.players = sockets

\* C7: an intent from a connected id with no player entity leaves the room
\* as it was and emits nothing.
C7_GhostIntentIgnored ==
    \A id \in sockets \ DOMAIN gameState.players :
        /\ \A data \in UpdateInputs : handlePlayerUpdate(Server, id, data) = Begin(Server)
        /\ \A data \in ThrowInputs : handleThrowPizza(Server, id, data) = Begin(Server)
        /\ \A data \in ChargeInputs : handlePlayerCharge(Server, id, data) = Begin(Server)
        /\ \A data \in BrakeInputs : handlePlayerBrake(Server, id, data) = Begin(Server)
        /\ \A name \in NameInputs : handleSetPlayerName(Server, id, name) = Begin(Server)
        /\ \A gen \in GenDraws : handlePlayerReady(Server, id, gen) = Begin(Server)

\* C8: handling the disconnect of an id twice leaves the room as handling
\* it once does, and handling the disconnect of an id with no player
\* entity leaves the room as it was.
C8_DisconnectIdempotent ==
    \A id \in sockets :
        LET once  == handlePlayerDisconnect(Server, id)
            twice == handlePlayerDisconnect(once, id)
        IN  /\ Room(twice) = Room(once)
            /\ id \notin DOMAIN gameState.players => Room(once) = Room(Server)

\* C9: the step that connects socket id creates its entity and emits, in
\* this order, the gameState snapshot holding that entity to id alone and
\* playerJoined with the entity to every other socket and not to id.
C9_JoinSnapshotThenAnnounce ==
    [][ \A id \in sockets' \ sockets :
            /\ id \in DOMAIN gameState'.players
            /\ gameState' = [gameState EXCEPT
                                !.players = Put(@, id, gameState'.players[id])]
            /\ out' = << [ev |-> "gameState", to |-> {id}, data |-> gameState'],
                         [ev |-> "playerJoined", to |-> sockets,
                          data |-> gameState'.players[id]] >>
            /\ id \notin out'[2].to ]_vars

\* a socket has joined a room another socket is connected to
C9_JoinedOccupiedRoom ==
    /\ Len(out) = 2
    /\ out[1].ev = "gameState" /\ out[2].ev = "playerJoined"
    /\ out[2].to # {}
    /\ out[1].to \subseteq DOMAIN out[1].data.players

(***************************************************************************)
(* Properties of the component's match loop                                *)
(***************************************************************************)
\* C3: a run of gameLoop that finds the required deliveries reached ends
\* the match as a victory and adds the bonus for the time left, whether or
\* not the clock or the pizzas have run out on that same run.
C3_VictoryCheckedFirst ==
    [][ ( /\ game.gameStarted /\ ~game.gameOver
          /\ game'.timeLeft = game.timeLeft - 1
          /\ game.deliveriesCompleted >= REQUIRED_DELIVERIES )
        => /\ game'.gameOver
           /\ game'.endedBy = "victory"
           /\ game'.score = game.score + TimeBonus(game'.timeLeft) ]_vars

(***************************************************************************)
(* Properties of the lobby                                                 *)
(***************************************************************************)
\* ids and positions of a player map
Positions(m) == [id \in DOMAIN m |-> << m[id].x, m[id].y >>]

\* C6: when no event is on its way to any client, the player map of every
\* connected client has the ids and positions of the server's player map.
C6_ClientsConverge ==
    (\A c \in DOMAIN wire : wire[c] = << >>) =>
        \A c \in DOMAIN wire : Positions(clientPlayers[c]) = Positions(netPlayers)

\* two clients are connected after a third has left, a player has been
\* moved to the edge of the world, and every event has been received
C6_QuietAfterMoveAndLeave ==
    /\ netIssued = NetConns
    /\ netClosed = {}
    /\ Cardinality(DOMAIN wire) = 2
    /\ \A c \in DOMAIN wire : wire[c] = << >>
    /\ \E id \in DOMAIN netPlayers : netPlayers[id].x = WORLD_MAX_X - PLAYER_SIZE

(***************************************************************************)
(* Properties of the relay                                                 *)
(***************************************************************************)
\* C10 as stated: no player_update about a socket's own entity is
\* delivered to that socket.
C10_NoUpdateAboutSelf ==
    \A k \in Emitted("player_update") : out[k].data.id \notin out[k].to

\* C10: a position, charge or brake intent of socket c is relayed to every
\* other connected socket and not to c; a player_update about c reaches c
\* only as the notification of c's name, which goes to every socket.
C10_RelayedToOthers ==
    /\ \A k \in Emitted("player_update") :
           LET c == out[k].data.id
           IN  \/ out[k].to = sockets \ {c}
               \/ /\ out[k].to = sockets
                  /\ c \in DOMAIN gameState.players
                  /\ out[k].data = NameNotice(gameState.players[c])
    /\ \A k \in Emitted("player_charge") : out[k].to = sockets \ {out[k].data.playerId}
    /\ \A k \in Emitted("player_brake") : out[k].to = sockets \ {out[k].data.playerId}

\* a position update has been relayed to another socket
C10_UpdateRelayed ==
    \E k \in Emitted("player_update") :
        /\ "isReady" \in DOMAIN out[k].data
        /\ out[k].to # {}
        /\ out[k].data.id \in sockets

\* C11: a ping with timestamp t from a connected socket emits exactly one
\* pong_event, to that socket alone, carrying t, and leaves the room and
\* the connections as they were.
C11_PingEchoed ==
    \A id \in sockets : \A t \in PingInputs :
        LET s == handlePing(Server, id, t)
        IN  /\ s.out = << [ev |-> "pong_event", to |-> {id}, data |-> t] >>
            /\ Room(s) = Room(Server)
            /\ s.sockets = sockets

\* a socket of a room with two connections has been answered its ping
C11_PongSent ==
    /\ Cardinality(sockets) = 2
    /\ Len(out) = 1
    /\ out[1].ev = "pong_event"
    /\ out[1].data = 1234
    /\ out[1].to \subseteq sockets /\ Cardinality(out[1].to) = 1

(***************************************************************************)
(* Properties of the player controller                                     *)
(***************************************************************************)
\* the releases the player can make now: of the space bar, and of the mouse
\* button with the pointer off the player
Releases(c) ==
    { handleKeyUp(c, " ") }
        \cup { handleMouseUp(c, aim) : aim \in { a \in MouseAims : a # Vec(0, 0) } }

\* C12: a release that is processed (a charge is on, the player is not
\* stunned and has throws left) adds exactly one active, sliding,
\* undelivered pizza and takes exactly one throw; a release with no throw
\* left or while stunned changes nothing; the count of throws left is never
\* negative.
C12_ThrowOrNoOp ==
    /\ controller.pizzasRemaining >= 0
    /\ \A r \in Releases(controller) :
          /\ (controller.stunned > 0 \/ controller.pizzasRemaining <= 0)
                => r = controller
          /\ (controller.isCharging /\ controller.stunned <= 0
                  /\ controller.pizzasRemaining > 0)
                => /\ Len(r.pizzas) = Len(controller.pizzas) + 1
                   /\ SubSeq(r.pizzas, 1, Len(controller.pizzas)) = controller.pizzas
                   /\ r.pizzas[Len(r.pizzas)].active
                   /\ r.pizzas[Len(r.pizzas)].sliding
                   /\ ~r.pizzas[Len(r.pizzas)].delivered
                   /\ r.pizzasRemaining = controller.pizzasRemaining - 1

\* C13: the step that resolves a pizza as delivered gives its thrower one
\* throw back, up to the initial total.
C13_DeliveryReturnsThrow ==
    [][ \A k \in 1..Len(out') :
            (/\ out'[k].ev = "delivery_complete"
             /\ out'[k].data.playerId \in DOMAIN gameState.players
             /\ out'[k].data.playerId \in DOMAIN gameState'.players)
                => gameState'.players[out'[k].data.playerId].pizzasRemaining
                       = Min(TOTAL_PIZZAS,
                             gameState.players[out'[k].data.playerId].pizzasRemaining + 1)
      ]_vars

\* C14: the step that resolves a delivery for a pizza of player p adds its
\* points to p's score and one to p's count of deliveries, and the game_over
\* event carries the score and the count of deliveries of every player of
\* the room.
C14_GameOverCarriesEarnings ==
    [][ /\ \A k \in 1..Len(out') :
              (/\ out'[k].ev = "delivery_complete"
               /\ out'[k].data.playerId \in DOMAIN gameState.players
               /\ out'[k].data.playerId \in DOMAIN gameState'.players)
                  => LET p == out'[k].data.playerId
                     IN  /\ gameState'.players[p].score
                                = gameState.players[p].score + out'[k].data.points
                         /\ gameState'.players[p].deliveriesCompleted
                                = gameState.players[p].deliveriesCompleted + 1
        /\ \A k \in 1..Len(out') :
              out'[k].ev = "game_over"
                  => /\ out'[k].data.scores
                            = [id \in DOMAIN gameState'.players |->
                                   gameState'.players[id].score]
                     /\ out'[k].data.deliveries
                            = [id \in DOMAIN gameState'.players |->
                                   gameState'.players[id].deliveriesCompleted]
      ]_vars

(***************************************************************************)
(* Properties of the pizzas of the component                               *)
(***************************************************************************)
\* the pizza after the move and the friction of one tick
AfterStep(pizza) ==
    [pizza EXCEPT !.position = Vec(pizza.position.x + pizza.velocity.x,
                                   pizza.position.y + pizza.velocity.y),
                  !.velocity = Vec(Scale(pizza.velocity.x, 98, 100),
                                   Scale(pizza.velocity.y, 98, 100))]

\* the pizzas that come to rest in the tick that starts now
StoppingNow ==
    { k \in 1..Len(game.pizzas) :
          game.pizzas[k].active /\ PizzaStopped(AfterStep(game.pizzas[k])) }

\* C15: in a tick of the running match no pizza is resolved as delivered
\* unless it comes to rest in that tick, and a pizza that has come to rest
\* or left the world is no longer in the world after the tick.
C15_ResolvedOnStopOrExit ==
    [][ (game'.timeLeft = game.timeLeft - 1 /\ ~game'.gameOver)
            => /\ game'.deliveriesCompleted - game.deliveriesCompleted
                      <= Cardinality(StoppingNow)
               /\ \A k \in 1..Len(game'.pizzas) :
                      /\ ~PizzaStopped(game'.pizzas[k])
                      /\ ~PizzaOutOfWorld(game'.pizzas[k])
      ]_vars

(***************************************************************************)
(* Properties of the server's scoring                                      *)
(***************************************************************************)
\* distances from the centre of a delivery point, up to its radius of 40
StopOffsets == { 0, Px(1), Px(13), Px(20), Px(40) }

AxisDirections == { Vec(1, 0), Vec(-1, 0), Vec(0, 1), Vec(0, -1) }

\* a pizza of player id at rest d from the point, along dir
RestingPizza(point, d, dir, id, sliding) ==
    [ position  |-> Vec(point.position.x + d * dir.x, point.position.y + d * dir.y),
      velocity  |-> Vec(0, 0),
      active    |-> TRUE,
      delivered |-> FALSE,
      sliding   |-> sliding,
      playerId  |-> id ]

\* C16: in a running match, a pizza that stops at distance d <= r from the
\* centre of the active delivery point is resolved as delivered with
\* floor(150 * (1 - d / r)) + 50 points; the points lie in 50..200 and do
\* not grow with d; a pizza thrown at the centre with velocity (0, 0) is
\* delivered, for the maximum of 200, by the next tick, which removes it.
C16_ScoreByDistance ==
    (gameState.gameStarted /\ ~gameState.gameOver
         /\ ActivePointIndex(gameState.deliveryPoints) # 0)
    => LET point == gameState.deliveryPoints[ActivePointIndex(gameState.deliveryPoints)]
           r == point.radius
       IN  /\ \A d \in StopOffsets : \A dir \in AxisDirections : \A id \in sockets :
                  LET o == checkPizzaDelivery(Begin(Server),
                               RestingPizza(point, d, dir, id, FALSE)).out
                  IN  /\ Len(o) = 1
                      /\ o[1].ev = "delivery_complete"
                      /\ o[1].data.playerId = id
                      /\ o[1].data.points = (150 * (r - d)) \div r + 50
                      /\ o[1].data.points \in 50..200
           /\ \A d1, d2 \in StopOffsets :
                  d1 < d2 => DeliveryPoints(d1 * d1, r) >= DeliveryPoints(d2 * d2, r)
           /\ \A id \in sockets :
                  LET s == updatePizzas(
                               [Begin(Server) EXCEPT !.gameState.pizzas =
                                   << RestingPizza(point, 0, Vec(1, 0), id, TRUE) >>])
                  IN  /\ s.gameState.pizzas = << >>
                      /\ Len(s.out) = 1
                      /\ s.out[1].ev = "delivery_complete"
                      /\ s.out[1].data = [playerId |-> id, points |-> 200]

\* a pizza thrown onto the centre of the active point has been delivered for
\* 200 points
C16_DeliveredAtCentre ==
    /\ gameState.gameStarted
    /\ \E k \in 1..Len(out) :
           /\ out[k].ev = "delivery_complete"
           /\ out[k].data.points = 200
    /\ gameState.pizzas = << >>

(***************************************************************************)
(* Properties of the player's speed, stun and spin                         *)
(***************************************************************************)
\* the step is a run of gameLoop
IsTick == played'.ticks = played.ticks + 1

\* C17 as stated: after every tick the speed lies between PLAYER_SPEED_MIN
\* and maxSpeed.
C17_SpeedWithinEnvelope ==
    [][ IsTick => /\ controller'.currentSpeed >= PLAYER_SPEED_MIN
                  /\ controller'.currentSpeed <= controller'.maxSpeed ]_vars

\* C17: after every tick the speed lies between zero and maxSpeed, and it
\* is zero after the tick of a collision with a building and after the tick
\* that ends the spins.
C17_SpeedUnderLimit ==
    [][ IsTick => /\ controller'.currentSpeed >= 0
                  /\ controller'.currentSpeed <= controller'.maxSpeed
                  /\ (controller.spinCount = 0 /\ controller'.spinCount > 0)
                         => controller'.currentSpeed = 0
                  /\ (controller.spinCount > 0 /\ controller'.spinCount = 0)
                         => controller'.currentSpeed = 0 ]_vars

\* the player spins after a collision at a speed under PLAYER_SPEED_MIN
C17_SlowAfterCollision ==
    /\ controller.spinCount > 0
    /\ controller.stunned > 0
    /\ controller.currentSpeed < PLAYER_SPEED_MIN
    /\ played.ticks > 0

\* the player as the tick that starts now has it when it checks collisions
BeforeCollisions ==
    movePlayer(updateStun(updateCharge(speedEnvelope(
        turnFriction(updateBrake(controller), keysRef), keysRef))), keysRef)

\* the step the player is about to take ends in a building
HitsBuilding ==
    ~isOnStreet(BeforeCollisions.position.x + BeforeCollisions.velocity.x,
                BeforeCollisions.position.y + BeforeCollisions.velocity.y,
                PlayerBox, ControlCity)

\* a vehicle, once moved, is within reach of the player
HitsVehicle ==
    LET c == collideBuildings(BeforeCollisions)
    IN  \E i \in 1..Len(c.vehicles) :
            VehicleTouches(c, updateVehiclePosition(c.vehicles[i]))

\* C18: the tick in which a player that is not stunned hits a building or a
\* vehicle leaves it stunned for STUN_DURATION, at rest, with spins to make,
\* not charging and with no charge; a hit while it is stunned restarts no
\* stun and leaves the charge alone.
C18_CollisionStuns ==
    [][ IsTick =>
          /\ ((HitsBuilding \/ HitsVehicle) /\ BeforeCollisions.stunned <= 0)
                 => /\ controller'.stunned = STUN_DURATION
                    /\ controller'.velocity = Vec(0, 0)
                    /\ controller'.spinCount > 0
                    /\ ~controller'.isCharging
                    /\ controller'.chargePower = 0
          /\ ((HitsBuilding \/ HitsVehicle) /\ BeforeCollisions.stunned > 0)
                 => /\ controller'.stunned <= BeforeCollisions.stunned
                    /\ controller'.isCharging = BeforeCollisions.isCharging
                    /\ controller'.chargePower = BeforeCollisions.chargePower
      ]_vars

\* C19: after every tick a player with spins to make is stunned; within a
\* spin the spin timer drops by at most one a tick; and the tick that takes
\* the last spin off clears the stun and leaves the speed at zero.
C19_SpinOnlyWhileStunned ==
    [][ IsTick =>
          /\ controller'.spinCount > 0 => controller'.stunned > 0
          /\ (controller.spinCount > 0 /\ controller'.spinCount = controller.spinCount)
                 => controller'.spinTimer >= controller.spinTimer - 1
          /\ (controller.spinCount > 0 /\ controller'.spinCount = 0)
                 => /\ controller'.stunned = 0
                    /\ controller'.currentSpeed = 0
      ]_vars

\* the player is in control, heads east, holds no key and the tick that
\* starts now ends in no building and at no vehicle
DrivesEastFreely ==
    /\ controller.stunned = 0
    /\ controller.spinCount = 0
    /\ controller.rotation = 0
    /\ keysRef = {}
    /\ ~HitsBuilding
    /\ ~HitsVehicle

Overlap2(b, dir) ==
    IF dir = "x"
    THEN Min(2 * generated.x + generated.size.x, 2 * (b.x + b.width))
           - Max(2 * generated.x - generated.size.x, 2 * b.x)
    ELSE Min(2 * generated.y + generated.size.y, 2 * (b.y + b.height))
           - Max(2 * generated.y - generated.size.y, 2 * b.y)

\* the obstacles of the last call: its buildings of type "building"
Obstacles == { i \in 1..Len(generated.blds) : generated.blds[i].type = "building" }

\* C21: isOnStreet returns false if and only if the query box centred on the
\* point, half the size on each side, overlaps an obstacle rectangle over a
\* positive width and a positive height; a box that only touches an
\* obstacle's edge or corner is on the street.
C21_OffStreetIffOverlap ==
    generated.op = "isOnStreet" =>
        /\ generated.result = FALSE
              <=> \E i \in Obstacles : /\ Overlap2(generated.blds[i], "x") > 0
                                       /\ Overlap2(generated.blds[i], "y") > 0
        /\ (\A i \in Obstacles : \/ Overlap2(generated.blds[i], "x") <= 0
                                  \/ Overlap2(generated.blds[i], "y") <= 0)
              => generated.result = TRUE

\* a query box whose edge lies on the edge of an obstacle, found on the street
C21_TouchingBoxOnStreet ==
    /\ generated.op = "isOnStreet"
    /\ generated.result = TRUE
    /\ \E i \in Obstacles : /\ Overlap2(generated.blds[i], "x") = 0
                             /\ Overlap2(generated.blds[i], "y") > 0

\* the waypoints of the last route built
Waypoints == generated.result.points

\* the box of a route point lies on the streets of the last call's layout
RoutePointOnStreet(pos) ==
    isOnStreet(pos.x, pos.y, Vec(Px(40), Px(40)), generated.blds)

\* the bounds each route construction tests its hops against
RoutePointInBounds(pos) ==
    IF generated.op = "generateVehicleRoute"
    THEN /\ pos.x >= 0 /\ pos.x < Px(CITY_WIDTH)
         /\ pos.y >= 0 /\ pos.y < Px(CITY_HEIGHT)
    ELSE /\ pos.x >= Px(STREET_WIDTH) /\ pos.x <= Px(CITY_WIDTH - STREET_WIDTH)
         /\ pos.y >= Px(STREET_WIDTH) /\ pos.y <= Px(CITY_HEIGHT - STREET_WIDTH)

IsRoute == generated.op \in {"generateVehicleRoute", "Game_generateVehicleRoute"}

\* the iterations the loop of the last generateVehicleRoute call made
IterationsMade ==
    RouteIterations(1, 1, Waypoints[1], generated.rnd.dir, generated.rnd.steps,
                    generated.blds)

\* C22 as stated: every waypoint of a returned route, the snapped start point
\* included, is inside the bounds the construction tests and on a street, and
\* every rejected hop is retried: no construction ends on a rejected hop.
C22_EveryWaypointAccepted ==
    IsRoute =>
        /\ \A n \in 1..Len(Waypoints) :
               RoutePointInBounds(Waypoints[n]) /\ RoutePointOnStreet(Waypoints[n])
        /\ generated.op = "Game_generateVehicleRoute" => ~generated.result.stretchRejected

\* C22: every waypoint after the first of a returned route is inside the
\* bounds the construction tests and on a street, so a rejected hop is never
\* added.  The first waypoint is the start snapped to the grid, untested: it
\* lies in the closed rectangle of the city, and on a street in a generated
\* city.  The server's construction retries every rejected hop and returns 4
\* waypoints; the component's returns 3 to NUM_POINTS of them.
C22_HopsAccepted ==
    IsRoute =>
        /\ \A n \in 2..Len(Waypoints) :
               RoutePointInBounds(Waypoints[n]) /\ RoutePointOnStreet(Waypoints[n])
        /\ Waypoints[1] = findNearestIntersection(generated.startPos.x, generated.startPos.y)
        /\ Waypoints[1].x \in 0..Px(CITY_WIDTH) /\ Waypoints[1].y \in 0..Px(CITY_HEIGHT)
        /\ generated.blds = GenCity => RoutePointOnStreet(Waypoints[1])
        /\ generated.op = "generateVehicleRoute" => Len(Waypoints) = 4
        /\ generated.op = "Game_generateVehicleRoute" => Len(Waypoints) \in 3..NUM_POINTS

\* a route from the crossing (200, 400) whose first hop, east onto the built
\* crossing (400, 400), was rejected and retried westwards
C22_RejectedHopRetried ==
    /\ generated.op = "generateVehicleRoute"
    /\ generated.blds = CrossingBuilt
    /\ Waypoints[1] = Vec(Px(200), Px(400))
    /\ generated.rnd = [dir |-> Vec(1, 0), steps |-> << >>]
    /\ IterationsMade > 3
    /\ Waypoints[2] = Vec(0, Px(400))

\* the targets the last placement returned
Targets == generated.result

\* C23: the server's delivery-target placement returns exactly
\* REQUIRED_DELIVERIES targets, each inside the world bounds and on a street,
\* every pair at least one block-width apart, the first target active and
\* all the others inactive.
C23_TenSpacedTargets ==
    generated.op = "generateDeliveryPoints" =>
        /\ Len(Targets) = REQUIRED_DELIVERIES
        /\ \A k \in 1..Len(Targets) :
               /\ Targets[k].position.x \in 0..Px(CITY_WIDTH)
               /\ Targets[k].position.y \in 0..Px(CITY_HEIGHT)
               /\ isOnStreet(Targets[k].position.x, Targets[k].position.y,
                             Vec(Px(80), Px(80)), generated.blds)
               /\ Targets[k].active = (k = 1)
        /\ \A k \in 1..Len(Targets), n \in 1..Len(Targets) :
               k < n => ~DistLess((Targets[k].position.x - Targets[n].position.x) \div 100,
                                  (Targets[k].position.y - Targets[n].position.y) \div 100,
                                  BLOCK_SIZE)

\* C24: route and delivery-target generation returns after a bounded number
\* of attempts for every start and every sequence of random draws: the loop
\* of the server's route construction leaves within MaxRouteIterations
\* iterations, the minimum-points loop of the component's within as many
\* draws, and the component's placement within MaxPlacementCalls calls.
C24_GenerationReturns ==
    /\ generated.op = "generateVehicleRoute loop" => generated.iterations >= 0
    /\ generated.op = "Game_generateVehicleRoute loop" => generated.returned
    /\ generated.op = "Game_generateDeliveryPoints" => generated.result.returned

(***************************************************************************)
(* Properties of the match server's timers                                 *)
(***************************************************************************)
\* a socket has gone and no player is left
LastPlayerLeaves ==
    /\ sockets' # sockets /\ sockets' \subseteq sockets
    /\ DOMAIN gameState'.players = {}

\* C25: when the last player disconnects, the world is reinitialised (not
\* started, not over, no projectiles, targets or vehicles, full timer), the
\* ready set is emptied and both tick timers are stopped: no interval is
\* left alive to tick in a room with no player.
C25_LastDisconnectResets ==
    [][ LastPlayerLeaves =>
            /\ gameState' = EmptyGameState
            /\ readyPlayers' = {}
            /\ ~gameLoopInterval' /\ ~vehicleUpdateInterval'
            /\ intervals' = [loop |-> 0, vehicle |-> 0] ]_vars

\* C29: for any sequence of join, ready, reset and disconnect events, at most
\* one 60 Hz interval and at most one 10 Hz interval are alive at any time,
\* and none is alive while the server holds no handle of its kind: stopping
\* the game loop leaves none scheduled.
C29_OneTimerOfEachKind ==
    /\ intervals.loop <= 1 /\ intervals.vehicle <= 1
    /\ ~gameLoopInterval => intervals.loop = 0
    /\ ~vehicleUpdateInterval => intervals.vehicle = 0

Running == gameState.gameStarted /\ ~gameState.gameOver

C26_StoredPositionInWorld ==
    \A id \in DOMAIN gameState.players :
        /\ gameState.players[id].position.x \in 0..Px(CITY_WIDTH)
        /\ gameState.players[id].position.y \in 0..Px(CITY_HEIGHT)

(***************************************************************************)
(* Properties of the flying pizzas                                         *)
(***************************************************************************)
\* the pizza of the call after the tick's friction, at the place it flew to
Slowed ==
    [generated.pizza EXCEPT
       !.position = Vec(@.x + generated.pizza.velocity.x,
                        @.y + generated.pizza.velocity.y),
       !.velocity = Vec(Scale(@.x, 98, 100), Scale(@.y, 98, 100))]

\* the velocities one bounce of the component can leave: off a building or
\* off a vehicle the pizza touches
Game_OneBounce ==
    { Game_calculatePizzaBounce(Slowed,
          Slowed.position.x - (generated.blds[i].x + generated.blds[i].width \div 2),
          Slowed.position.y - (generated.blds[i].y + generated.blds[i].height \div 2)).velocity :
        i \in { j \in 1..Len(generated.blds) :
                  Game_checkPizzaRectCollision(Slowed, generated.blds[j].x, generated.blds[j].y,
                      generated.blds[j].width, generated.blds[j].height) } }
    \cup
    { Game_calculatePizzaBounce(Slowed,
          Slowed.position.x - generated.vehicles[i].position.x,
          Slowed.position.y - generated.vehicles[i].position.y).velocity :
        i \in { j \in 1..Len(generated.vehicles) :
                  DistLess(Slowed.position.x - generated.vehicles[j].position.x,
                           Slowed.position.y - generated.vehicles[j].position.y,
                           generated.vehicles[j].size.x \div 2 + Px(PIZZA_RADIUS)) } }

\* C28: a tick reflects and damps the velocity of a pizza at most once: the
\* pizza leaves the tick with the velocity friction left it, or with that
\* velocity bounced once, also when it is inside a building and within reach
\* of a vehicle, or touches several obstacles.
C28_OneBouncePerTick ==
    /\ generated.op = "updatePizzas" =>
         generated.moved.velocity \in
             { Slowed.velocity, handlePizzaCollision(Slowed).velocity }
    /\ generated.op = "gameLoop" =>
         generated.moved.velocity \in { Slowed.velocity } \cup Game_OneBounce

(***************************************************************************)
(* Properties of the collect-point route                                   *)
(***************************************************************************)
\* the requests answered with success for the point
Collectors(pt) ==
    { r \in Posts : posts[r].response.success /\ posts[r].existingPoint.id = pt }

RECURSIVE Total(_, _)
Total(f, S) ==
    IF S = {} THEN 0
    ELSE LET e == CHOOSE e \in S : TRUE IN f[e] + Total(f, S \ {e})

\* what the scores of the players have gained, all together
ScoreGained ==
    Total([p \in DOMAIN dbPlayers |-> dbPlayers[p].score - PlayerRows[p].score],
          DOMAIN dbPlayers)

\* the values of the points marked collected, all together
ValueCollected ==
    Total([pt \in DOMAIN dbGamePoints |-> dbGamePoints[pt].value],
          { pt \in DOMAIN dbGamePoints : dbGamePoints[pt].collected })

\* C30: of the requests that ask for one point while it is not collected,
\* however their reads and writes of the database interleave, at most one is
\* answered with success, and the scores gain the value of the point at most
\* once.
C30_OneCollectorPerPoint ==
    /\ \A pt \in DOMAIN dbGamePoints : Cardinality(Collectors(pt)) <= 1
    /\ ScoreGained <= ValueCollected

====
